---- MODULE Spec2Model ----
(***************************************************************************)
(* A model of finance-tracker's annotation store (notes_manager.py): the   *)
(* NotesManager instances of cooperating processes that share one backing  *)
(* file, the file system they act on (directory entries, inodes, advisory  *)
(* flock locks), the transaction identity function and the merge of notes  *)
(* into a transaction table.                                               *)
(*                                                                         *)
(* Strings are sequences of one-character strings.  Every process holds at *)
(* most one open file at a time: the backing file while it loads, its      *)
(* temporary file while it saves.                                          *)
(***************************************************************************)
EXTENDS Integers, Sequences, FiniteSets, TLC

\* ------------------------------------------------------------- bounds
MaxNoteLen == 2
MaxOrphans == 1
MaxRows == 2
DigestHexLen == 3
IdHexLen == 2
MaxStatementRows == 2
MaxMappings == 2
MaxFiles == 2
MaxSources == 2

\* The cooperating processes, each holding at most one NotesManager.
Procs == {"p1", "p2"}

\* ------------------------------------------------------------ strings
Alphabet == {" ", "a"}
Whitespace == {" "}

RECURSIVE SeqsUpTo(_, _)
SeqsUpTo(S, n) ==
    IF n = 0 THEN {<<>>}
    ELSE LET shorter == SeqsUpTo(S, n - 1)
         IN  shorter \cup {Append(s, c) : s \in {t \in shorter : Len(t) = n - 1}, c \in S}

\* The notes a caller may pass to set_note.
RawNotes == SeqsUpTo(Alphabet, MaxNoteLen)

RECURSIVE lstrip(_)
lstrip(s) ==
    IF s # <<>> /\ Head(s) \in Whitespace THEN lstrip(Tail(s)) ELSE s

RECURSIVE rstrip(_)
rstrip(s) ==
    IF s # <<>> /\ s[Len(s)] \in Whitespace THEN rstrip(SubSeq(s, 1, Len(s) - 1)) ELSE s

\* str.strip(): leading and trailing whitespace removed, inner whitespace kept.
strip(s) == rstrip(lstrip(s))

RECURSIVE join(_, _)
join(sep, parts) ==
    IF parts = <<>> THEN <<>>
    ELSE IF Len(parts) = 1 THEN parts[1]
    ELSE parts[1] \o sep \o join(sep, Tail(parts))

HexDigits == <<"0", "1", "2", "3", "4", "5", "6", "7", "8", "9", "a", "b", "c", "d", "e", "f">>

\* str() of an integer amount.
RECURSIVE NatStr(_)
NatStr(n) ==
    IF n < 10 THEN <<HexDigits[n + 1]>> ELSE NatStr(n \div 10) \o <<HexDigits[(n % 10) + 1]>>

IntStr(n) == IF n < 0 THEN <<"-">> \o NatStr(-n) ELSE NatStr(n)

\* The byte of a character (str.encode()).
Ord(c) ==
    CASE c = "|" -> 124
      [] c = "-" -> 45
      [] c = " " -> 32
      [] c = "x" -> 120
      [] c = "y" -> 121
      [] c = "f" -> 102
      [] c = "g" -> 103
      [] c = "c" -> 99
      [] c = "a" -> 97
      [] OTHER -> 48 + (CHOOSE i \in 0..9 : HexDigits[i + 1] = c)

RECURSIVE Pow(_, _)
Pow(b, e) == IF e = 0 THEN 1 ELSE b * Pow(b, e - 1)

\* The digest of a byte string, as a number below 16^DigestHexLen.  It stands
\* for sha256: a fixed function of the bytes with a finite range.
RECURSIVE DigestFrom(_, _)
DigestFrom(h, s) ==
    IF s = <<>> THEN h
    ELSE DigestFrom((h * 31 + Ord(Head(s))) % Pow(16, DigestHexLen), Tail(s))

RECURSIVE Hex(_, _)
Hex(n, width) ==
    IF width = 0 THEN <<>> ELSE Hex(n \div 16, width - 1) \o <<HexDigits[(n % 16) + 1]>>

hexdigest(s) == Hex(DigestFrom(7, s), DigestHexLen)

\* ------------------------------------------------- transaction identity
\* The canonical rows of the transaction table.  category is a field the
\* identity does not read.
Rows ==
    [date : {<<"1">>}, amount : {-3, 5}, description : {<<"x">>},
     bank : {<<"c">>}, source_file : {<<"f">>}, category : {"c1", "c2"}]

key_fields(row) ==
    <<row.date, IntStr(row.amount), row.description, row.bank, row.source_file>>

generate_transaction_id_by_category(row) ==
    SubSeq(hexdigest(join(<<"|">>, <<<<IF row.category = "c1" THEN "x" ELSE "y">>>> \o key_fields(row))),
           1, IdHexLen)

generate_transaction_id(row) ==
    SubSeq(hexdigest(join(<<"|">>, key_fields(row))), 1, IdHexLen)

\* The ids the dashboard passes to set_note: those of the table's rows.
Ids == {generate_transaction_id(r) : r \in Rows}

\* ------------------------------------------------------ the note store
EmptyMap == [i \in {} |-> <<>>]

\* The keys of the metadata __init__ builds.  Their values are timestamps
\* and a version string, which are not modelled: metadata is the set of its
\* keys.
DefaultMetadata == {"created", "last_updated", "version"}

\* The structure __init__ builds.
DefaultData == [transaction_notes |-> EmptyMap, metadata |-> DefaultMetadata]

Docs ==
    UNION {[transaction_notes : [D -> SeqsUpTo(Alphabet, MaxNoteLen)],
            metadata : {DefaultMetadata, DefaultMetadata \cup {"backup_created"}}] : D \in SUBSET Ids}

get_note(data, transaction_id) ==
    IF transaction_id \in DOMAIN data.transaction_notes
    THEN data.transaction_notes[transaction_id]
    ELSE <<>>

Put(m, k, v) == [x \in DOMAIN m \cup {k} |-> IF x = k THEN v ELSE m[x]]
Pop(m, k) == [x \in DOMAIN m \ {k} |-> m[x]]

set_note_keeps_empty(data, transaction_id, note) ==
    [data EXCEPT !.transaction_notes = Put(@, transaction_id, strip(note))]

set_note_unstripped(data, transaction_id, note) ==
    [data EXCEPT !.transaction_notes =
        IF strip(note) # <<>> THEN Put(@, transaction_id, note) ELSE Pop(@, transaction_id)]

\* The in-memory effect of set_note, before it saves.
set_note_data(data, transaction_id, note) ==
    [data EXCEPT !.transaction_notes =
        IF strip(note) # <<>> THEN Put(@, transaction_id, strip(note)) ELSE Pop(@, transaction_id)]

\* -------------------------------------------------------- file system
\* An inode's content: a temporary file just created ("empty"), one holding
\* part of a document ("partial"), a complete snapshot ("full", with the
\* document), bytes that do not deserialize ("garbage").
Free == [kind |-> "free", data |-> DefaultData]
EmptyFile == [kind |-> "empty", data |-> DefaultData]
Partial == [kind |-> "partial", data |-> DefaultData]
Garbage == [kind |-> "garbage", data |-> DefaultData]
Full(data) == [kind |-> "full", data |-> data]

\* One inode for the backing file and one per process (its open file).  The
\* temporary files left behind are counted; nothing reads them.
Inodes == 1..(1 + Cardinality(Procs))

VARIABLES
    pc,          \* each process's position
    notes_data,  \* NotesManager.notes_data of each process's instance
    args,        \* the arguments of the call in progress
    pre,         \* notes_data when the call in progress began
    caller,      \* who called _save_notes_to_file
    saveErr,     \* whether the last _save_notes_to_file caught an exception
    result,      \* the value the call in progress returns
    df,          \* the table add_notes_to_dataframe returned
    fd,          \* the inode load_notes has open (0: none)
    tmp,         \* the inode of the process's temporary file (0: none)
    held,        \* the flock a process holds on its open file: UN, SH, EX
    inodes,      \* inode -> content
    path,        \* the inode notes_file names (0: the file does not exist)
    orphans,     \* how many temporary files were left in the directory
    backup_file, \* the content of the file at backup_path
    reader,      \* the BankStatementReader: filter_payments, schema_configs
    call,        \* the reader's call in progress or just returned
    normalizer   \* the CategoryNormalizer: category_mapping

frame == <<args, pre, result, df>>
files == <<fd, tmp, held>>
disk == <<inodes, path, orphans>>
bank == <<reader, call, normalizer>>
vars == <<pc, notes_data, caller, saveErr, frame, files, disk, backup_file, bank>>

NoArgs == [id |-> <<>>, note |-> <<>>, df |-> <<>>]

SavePcs == {"sv_create", "sv_lock", "sv_dump", "sv_unlock", "sv_flush", "sv_fsync", "sv_close", "sv_move"}
LoadPcs == {"init_exists", "ld_open", "ld_lock", "ld_read", "ld_unlock", "ld_close"}
RetPcs == {"ld_ret", "ld_recovered", "set_ret", "clear_ret", "merge_ret", "backup_ret", "stats_ret"}

\* Before a BankStatementReader is built, and between its calls.
NoReader == [built |-> FALSE, filter_payments |-> TRUE, schema_configs |-> <<>>]
NoCall == [fn |-> "none"]
NoNormalizer == [built |-> FALSE, raised |-> FALSE, category_mapping |-> <<>>]

Init ==
    /\ pc = [p \in Procs |-> "none"]
    /\ notes_data = [p \in Procs |-> DefaultData]
    /\ args = [p \in Procs |-> NoArgs]
    /\ pre = [p \in Procs |-> DefaultData]
    /\ caller = [p \in Procs |-> "none"]
    /\ saveErr = [p \in Procs |-> FALSE]
    /\ result = [p \in Procs |-> "none"]
    /\ df = [p \in Procs |-> <<>>]
    /\ fd = [p \in Procs |-> 0]
    /\ tmp = [p \in Procs |-> 0]
    /\ held = [p \in Procs |-> "UN"]
    /\ inodes = [i \in Inodes |-> Free]
    /\ path = 0
    /\ orphans = 0
    /\ backup_file = Free
    /\ reader = NoReader
    /\ call = NoCall
    /\ normalizer = NoNormalizer

\* The lowest unused inode.
Alloc(ino) == CHOOSE i \in Inodes : ino[i].kind = "free" /\ \A j \in Inodes : ino[j].kind = "free" => i <= j

\* An inode no directory entry names and no process has open is gone.
Collect(ino, pth, tm, f) ==
    [i \in Inodes |->
        IF i = pth \/ (\E p \in Procs : tm[p] = i \/ f[p] = i) THEN ino[i] ELSE Free]

\* The inode a process's flock is on.
LockedInode(p) == IF held[p] = "SH" THEN fd[p] ELSE IF held[p] = "EX" THEN tmp[p] ELSE 0

\* flock(LOCK_SH) or flock(LOCK_EX) on an inode does not block.
CanLock(p, i, mode) ==
    \A q \in Procs \ {p} : LockedInode(q) = i => (mode = "SH" /\ held[q] = "SH")

WriteTargetInPlace(p) == IF path # 0 THEN path ELSE tmp[p]

\* The file json.dump and flush write to: the NamedTemporaryFile.
WriteTarget(p) == tmp[p]

PathContent == IF path = 0 THEN Free ELSE inodes[path]

\* ------------------------------------------------------------ __init__
\* NotesManager(notes_file): the default structure, then
\* _ensure_notes_file_exists.
New(p) ==
    /\ pc[p] \in {"none", "crashed"}
    /\ notes_data' = [notes_data EXCEPT ![p] = DefaultData]
    /\ pc' = [pc EXCEPT ![p] = "init_exists"]
    /\ UNCHANGED <<caller, saveErr, frame, files, disk, backup_file, bank>>

\* _ensure_notes_file_exists: save when the file does not exist, then load.
EnsureExists(p) ==
    /\ pc[p] = "init_exists"
    /\ IF path = 0
       THEN pc' = [pc EXCEPT ![p] = "sv_create"] /\ caller' = [caller EXCEPT ![p] = "init"]
       ELSE pc' = [pc EXCEPT ![p] = "ld_open"] /\ UNCHANGED caller
    /\ UNCHANGED <<notes_data, saveErr, frame, files, disk, backup_file, bank>>

\* ---------------------------------------------------------- load_notes
\* open(notes_file, 'r'); FileNotFoundError goes to the handler, which saves.
LoadOpen(p) ==
    /\ pc[p] = "ld_open"
    /\ IF path = 0
       THEN /\ pc' = [pc EXCEPT ![p] = "sv_create"]
            /\ caller' = [caller EXCEPT ![p] = "load"]
            /\ UNCHANGED fd
       ELSE /\ pc' = [pc EXCEPT ![p] = "ld_lock"]
            /\ fd' = [fd EXCEPT ![p] = path]
            /\ UNCHANGED caller
    /\ UNCHANGED <<notes_data, saveErr, frame, tmp, held, disk, backup_file, bank>>

LoadLock(p) ==
    /\ pc[p] = "ld_lock"
    /\ CanLock(p, fd[p], "SH")
    /\ held' = [held EXCEPT ![p] = "SH"]
    /\ pc' = [pc EXCEPT ![p] = "ld_read"]
    /\ UNCHANGED <<notes_data, caller, saveErr, frame, fd, tmp, disk, backup_file, bank>>

\* json.load(f): the document, or JSONDecodeError, on which the with block
\* closes the file (and so drops the lock) and the handler saves.
LoadRead(p) ==
    /\ pc[p] = "ld_read"
    /\ IF inodes[fd[p]].kind = "full"
       THEN /\ notes_data' = [notes_data EXCEPT ![p] = inodes[fd[p]].data]
            /\ pc' = [pc EXCEPT ![p] = "ld_unlock"]
            /\ UNCHANGED <<caller, files, disk>>
       ELSE /\ pc' = [pc EXCEPT ![p] = "sv_create"]
            /\ caller' = [caller EXCEPT ![p] = "load"]
            /\ fd' = [fd EXCEPT ![p] = 0]
            /\ held' = [held EXCEPT ![p] = "UN"]
            /\ inodes' = Collect(inodes, path, tmp, fd')
            /\ UNCHANGED <<notes_data, tmp, path, orphans>>
    /\ UNCHANGED <<saveErr, frame, backup_file, bank>>

LoadUnlock(p) ==
    /\ pc[p] = "ld_unlock"
    /\ held' = [held EXCEPT ![p] = "UN"]
    /\ pc' = [pc EXCEPT ![p] = "ld_close"]
    /\ UNCHANGED <<notes_data, caller, saveErr, frame, fd, tmp, disk, backup_file, bank>>

LoadClose(p) ==
    /\ pc[p] = "ld_close"
    /\ fd' = [fd EXCEPT ![p] = 0]
    /\ inodes' = Collect(inodes, path, tmp, fd')
    /\ pc' = [pc EXCEPT ![p] = "ld_ret"]
    /\ UNCHANGED <<notes_data, caller, saveErr, frame, tmp, held, path, orphans, backup_file, bank>>

\* LoadError with the shared lock still held on return.
LoadErrorKeepsLock(p) ==
    /\ pc[p] \in {"ld_open", "ld_lock", "ld_read"}
    /\ inodes' = Collect(inodes, path, tmp, fd)
    /\ pc' = [pc EXCEPT ![p] = "ld_ret"]
    /\ held' = [held EXCEPT ![p] = IF pc[p] = "ld_read" THEN "SH" ELSE @]
    /\ UNCHANGED <<notes_data, caller, saveErr, frame, fd, tmp, path, orphans, backup_file, bank>>

\* Any other exception of open, flock or read: reported, notes_data kept.
LoadError(p) ==
    /\ pc[p] \in {"ld_open", "ld_lock", "ld_read"}
    /\ fd' = [fd EXCEPT ![p] = 0]
    /\ held' = [held EXCEPT ![p] = "UN"]
    /\ inodes' = Collect(inodes, path, tmp, fd')
    /\ pc' = [pc EXCEPT ![p] = "ld_ret"]
    /\ UNCHANGED <<notes_data, caller, saveErr, frame, tmp, path, orphans, backup_file, bank>>

\* ------------------------------------------------- _save_notes_to_file
\* Where _save_notes_to_file returns to.
AfterSave(c) ==
    CASE c = "init" -> "ld_open"
      [] c = "load" -> "ld_recovered"
      [] c = "set" -> "set_ret"
      [] c = "clear" -> "clear_ret"

\* set_note and clear_all_notes return True once the save has returned.
SaveReturns(p) ==
    /\ pc' = [pc EXCEPT ![p] = AfterSave(caller[p])]
    /\ caller' = [caller EXCEPT ![p] = "none"]
    /\ result' = [result EXCEPT ![p] = IF caller[p] \in {"set", "clear"} THEN "True" ELSE @]

\* tempfile.NamedTemporaryFile(dir=..., delete=False)
SaveCreate(p) ==
    /\ pc[p] = "sv_create"
    /\ tmp' = [tmp EXCEPT ![p] = Alloc(inodes)]
    /\ inodes' = [inodes EXCEPT ![Alloc(inodes)] = EmptyFile]
    /\ saveErr' = [saveErr EXCEPT ![p] = FALSE]
    /\ pc' = [pc EXCEPT ![p] = "sv_lock"]
    /\ UNCHANGED <<notes_data, caller, frame, fd, held, path, orphans, backup_file, bank>>

\* flock(temp_file, LOCK_EX)
SaveLock(p) ==
    /\ pc[p] = "sv_lock"
    /\ CanLock(p, tmp[p], "EX")
    /\ held' = [held EXCEPT ![p] = "EX"]
    /\ pc' = [pc EXCEPT ![p] = "sv_dump"]
    /\ UNCHANGED <<notes_data, caller, saveErr, frame, fd, tmp, disk, backup_file, bank>>

\* json.dump: the text goes to the file object's buffer; of a long document
\* a part reaches the file.
SaveDump(p) ==
    /\ pc[p] = "sv_dump"
    /\ \E c \in {EmptyFile, Partial} : inodes' = [inodes EXCEPT ![WriteTarget(p)] = c]
    /\ pc' = [pc EXCEPT ![p] = "sv_unlock"]
    /\ UNCHANGED <<notes_data, caller, saveErr, frame, files, path, orphans, backup_file, bank>>

\* flock(temp_file, LOCK_UN)
SaveUnlock(p) ==
    /\ pc[p] = "sv_unlock"
    /\ held' = [held EXCEPT ![p] = "UN"]
    /\ pc' = [pc EXCEPT ![p] = "sv_flush"]
    /\ UNCHANGED <<notes_data, caller, saveErr, frame, fd, tmp, disk, backup_file, bank>>

\* temp_file.flush(): the file holds the whole document.
SaveFlush(p) ==
    /\ pc[p] = "sv_flush"
    /\ inodes' = [inodes EXCEPT ![WriteTarget(p)] = Full(notes_data[p])]
    /\ pc' = [pc EXCEPT ![p] = "sv_fsync"]
    /\ UNCHANGED <<notes_data, caller, saveErr, frame, files, path, orphans, backup_file, bank>>

\* os.fsync
SaveFsync(p) ==
    /\ pc[p] = "sv_fsync"
    /\ pc' = [pc EXCEPT ![p] = "sv_close"]
    /\ UNCHANGED <<notes_data, caller, saveErr, frame, files, disk, backup_file, bank>>

\* temp_file.close()
SaveClose(p) ==
    /\ pc[p] = "sv_close"
    /\ pc' = [pc EXCEPT ![p] = "sv_move"]
    /\ UNCHANGED <<notes_data, caller, saveErr, frame, files, disk, backup_file, bank>>

\* shutil.move(temp_file.name, notes_file): a rename within one directory.
SaveMove(p) ==
    /\ pc[p] = "sv_move"
    /\ path' = tmp[p]
    /\ tmp' = [tmp EXCEPT ![p] = 0]
    /\ inodes' = Collect(inodes, path', tmp', fd)
    /\ SaveReturns(p)
    /\ UNCHANGED <<notes_data, saveErr, args, pre, df, fd, held, orphans, backup_file, bank>>

\* A step of the save raises.  Without a temporary file (its creation
\* raised) the outer handler reports it.  Otherwise the inner handler closes
\* the file and unlinks it; when the buffer still holds text (the dump or
\* the flush raised), close flushes it, may raise again, and the unlink is
\* then skipped.  The outer handler reports the error and the save returns.
SaveFail(p) ==
    /\ pc[p] \in SavePcs
    /\ \E leak \in {FALSE} \cup {pc[p] \in {"sv_dump", "sv_flush"} /\ orphans < MaxOrphans} :
          /\ orphans' = IF leak THEN orphans + 1 ELSE orphans
          /\ tmp' = [tmp EXCEPT ![p] = 0]
          /\ inodes' = Collect(inodes, path, tmp', fd)
    /\ held' = [held EXCEPT ![p] = "UN"]
    /\ saveErr' = [saveErr EXCEPT ![p] = TRUE]
    /\ SaveReturns(p)
    /\ UNCHANGED <<notes_data, args, pre, df, fd, path, backup_file, bank>>

\* ------------------------------------------------------- the public API
\* set_note(transaction_id, note): change notes_data, then save.
SetNote(p, transaction_id, note) ==
    /\ pc[p] = "idle"
    /\ args' = [args EXCEPT ![p] = [id |-> transaction_id, note |-> note, df |-> <<>>]]
    /\ pre' = [pre EXCEPT ![p] = notes_data[p]]
    /\ notes_data' = [notes_data EXCEPT ![p] = set_note_data(@, transaction_id, note)]
    /\ pc' = [pc EXCEPT ![p] = "sv_create"]
    /\ caller' = [caller EXCEPT ![p] = "set"]
    /\ UNCHANGED <<saveErr, result, df, files, disk, backup_file, bank>>

\* clear_all_notes()
ClearAllNotes(p) ==
    /\ pc[p] = "idle"
    /\ pre' = [pre EXCEPT ![p] = notes_data[p]]
    /\ notes_data' = [notes_data EXCEPT ![p] = [@ EXCEPT !.transaction_notes = EmptyMap]]
    /\ pc' = [pc EXCEPT ![p] = "sv_create"]
    /\ caller' = [caller EXCEPT ![p] = "clear"]
    /\ UNCHANGED <<saveErr, args, result, df, files, disk, backup_file, bank>>

\* backup_notes(backup_path), backup_path another file than notes_file.
\* dict.copy() is shallow: backup_data["metadata"] is the dict notes_data
\* holds, so the backup_created key is set in notes_data as well.  Opening
\* the file or dumping into it may raise; the handler returns False.
BackupNotes(p) ==
    /\ pc[p] = "idle"
    /\ pre' = [pre EXCEPT ![p] = notes_data[p]]
    /\ notes_data' = [notes_data EXCEPT ![p].metadata = @ \cup {"backup_created"}]
    /\ \E outcome \in {"written", "open raised", "dump raised"} :
          /\ backup_file' = CASE outcome = "written" -> Full(notes_data'[p])
                               [] outcome = "open raised" -> backup_file
                               [] outcome = "dump raised" -> Partial
          /\ result' = [result EXCEPT ![p] = IF outcome = "written" THEN "True" ELSE "False"]
    /\ pc' = [pc EXCEPT ![p] = "backup_ret"]
    /\ UNCHANGED <<caller, saveErr, args, df, files, disk, bank>>

\* sum(len(note) for note in notes.values())
RECURSIVE total_length(_, _)
total_length(notes, ids) ==
    IF ids = {} THEN 0
    ELSE LET id == CHOOSE i \in ids : TRUE
         IN  Len(notes[id]) + total_length(notes, ids \ {id})

\* A quotient of integers, kept as the pair of them.
Ratio(num, den) == [num |-> num, den |-> den]

\* get_statistics() with // in place of /.
get_statistics_floor(data) ==
    LET notes == data.transaction_notes
        total == total_length(notes, DOMAIN notes)
    IN  [total_notes |-> Cardinality(DOMAIN notes),
         total_characters |-> total,
         average_note_length |->
             IF DOMAIN notes # {} THEN Ratio(total \div Cardinality(DOMAIN notes), 1)
             ELSE Ratio(0, 1),
         last_updated |-> "last_updated" \in data.metadata,
         database_version |-> "version" \in data.metadata]

\* get_statistics(); last_updated and database_version are there or None.
get_statistics(data) ==
    LET notes == data.transaction_notes
        total == total_length(notes, DOMAIN notes)
    IN  [total_notes |-> Cardinality(DOMAIN notes),
         total_characters |-> total,
         average_note_length |->
             IF DOMAIN notes # {} THEN Ratio(total, Cardinality(DOMAIN notes)) ELSE Ratio(0, 1),
         last_updated |-> "last_updated" \in data.metadata,
         database_version |-> "version" \in data.metadata]

\* manager.get_statistics(): nothing but the returned record changes.
GetStatistics(p) ==
    /\ pc[p] = "idle"
    /\ result' = [result EXCEPT ![p] = get_statistics(notes_data[p])]
    /\ pc' = [pc EXCEPT ![p] = "stats_ret"]
    /\ UNCHANGED <<notes_data, caller, saveErr, args, pre, df, files, disk, backup_file, bank>>

\* load_notes() called on an instance in use.
Reload(p) ==
    /\ pc[p] = "idle"
    /\ pre' = [pre EXCEPT ![p] = notes_data[p]]
    /\ pc' = [pc EXCEPT ![p] = "ld_open"]
    /\ UNCHANGED <<notes_data, caller, saveErr, args, result, df, files, disk, backup_file, bank>>

\* The call returns to the dashboard.
Return(p) ==
    /\ pc[p] \in RetPcs
    /\ pc' = [pc EXCEPT ![p] = "idle"]
    /\ args' = [args EXCEPT ![p] = NoArgs]
    /\ pre' = [pre EXCEPT ![p] = DefaultData]
    /\ result' = [result EXCEPT ![p] = "none"]
    /\ saveErr' = [saveErr EXCEPT ![p] = FALSE]
    /\ df' = [df EXCEPT ![p] = <<>>]
    /\ UNCHANGED <<notes_data, caller, files, disk, backup_file, bank>>

\* The dashboard drops its instance (a rerun builds a new one).
Exit(p) ==
    /\ pc[p] = "idle"
    /\ pc' = [pc EXCEPT ![p] = "none"]
    /\ notes_data' = [notes_data EXCEPT ![p] = DefaultData]
    /\ UNCHANGED <<caller, saveErr, frame, files, disk, backup_file, bank>>

\* The process dies inside load_notes or _save_notes_to_file: its open file
\* is closed, its lock dropped, its temporary file stays in the directory.
Crash(p) ==
    /\ pc[p] \in SavePcs \cup LoadPcs
    /\ tmp[p] # 0 => orphans < MaxOrphans
    /\ orphans' = IF tmp[p] # 0 THEN orphans + 1 ELSE orphans
    /\ tmp' = [tmp EXCEPT ![p] = 0]
    /\ fd' = [fd EXCEPT ![p] = 0]
    /\ held' = [held EXCEPT ![p] = "UN"]
    /\ inodes' = Collect(inodes, path, tmp', fd')
    /\ pc' = [pc EXCEPT ![p] = "crashed"]
    /\ notes_data' = [notes_data EXCEPT ![p] = DefaultData]
    /\ caller' = [caller EXCEPT ![p] = "none"]
    /\ saveErr' = [saveErr EXCEPT ![p] = FALSE]
    /\ args' = [args EXCEPT ![p] = NoArgs]
    /\ pre' = [pre EXCEPT ![p] = DefaultData]
    /\ result' = [result EXCEPT ![p] = "none"]
    /\ UNCHANGED <<df, path, backup_file, bank>>

\* ------------------------------------------------------------- merge
\* A row with one more column.
WithColumn(row, column, value) ==
    [f \in DOMAIN row \cup {column} |-> IF f = column THEN value ELSE row[f]]

\* add_transaction_ids(df)
add_transaction_ids(table) ==
    IF table = <<>> THEN table
    ELSE [i \in 1..Len(table) |->
            WithColumn(table[i], "transaction_id", generate_transaction_id(table[i]))]

add_notes_to_dataframe_by_position(data, table) ==
    IF table = <<>> THEN table
    ELSE LET with_ids ==
                 IF "transaction_id" \notin DOMAIN table[1] THEN add_transaction_ids(table) ELSE table
         IN  [i \in 1..Len(with_ids) |->
                 WithColumn(with_ids[i], "notes", get_note(data, with_ids[1].transaction_id))]

\* add_notes_to_dataframe(df)
add_notes_to_dataframe(data, table) ==
    IF table = <<>> THEN table
    ELSE LET with_ids ==
                 IF "transaction_id" \notin DOMAIN table[1] THEN add_transaction_ids(table) ELSE table
         IN  [i \in 1..Len(with_ids) |->
                 WithColumn(with_ids[i], "notes", get_note(data, with_ids[i].transaction_id))]

\* The tables load_data hands over: the combined rows, with or without ids.
Tables == UNION {[1..n -> Rows] : n \in 0..MaxRows}

\* load_data: the dashboard merges the notes into its table.
Merge(p, table, with_ids) ==
    /\ pc[p] = "idle"
    /\ LET input == IF with_ids THEN add_transaction_ids(table) ELSE table
       IN  /\ args' = [args EXCEPT ![p] = [id |-> <<>>, note |-> <<>>, df |-> input]]
           /\ df' = [df EXCEPT ![p] = add_notes_to_dataframe(notes_data[p], input)]
    /\ pc' = [pc EXCEPT ![p] = "merge_ret"]
    /\ UNCHANGED <<notes_data, caller, saveErr, pre, result, files, disk, backup_file, bank>>

\* ------------------------------------------------------ the environment
\* Something other than the store deletes the backing file or overwrites
\* it with bytes that do not deserialize.
ExternalDamage ==
    /\ path # 0
    /\ \/ /\ path' = 0
          /\ inodes' = Collect(inodes, 0, tmp, fd)
       \/ /\ inodes[path].kind = "full"
          /\ inodes' = [inodes EXCEPT ![path] = Garbage]
          /\ UNCHANGED path
    /\ UNCHANGED <<pc, notes_data, caller, saveErr, frame, files, orphans, backup_file, bank>>

\* -------------------------------------------------------- specifications
\* The notes set where the text of a note does not matter: a note, or none;
\* and the one id two processes sharing the file set them on.
SharedNotes == {<<>>, <<"a">>}
SharedIds == {CHOOSE id \in Ids : TRUE}

\* A step of process p, its inputs drawn from ids, notes and tables.
Step(p, ids, notes, tables) ==
    \/ New(p)
    \/ EnsureExists(p)
    \/ LoadOpen(p)
    \/ LoadLock(p)
    \/ LoadRead(p)
    \/ LoadUnlock(p)
    \/ LoadClose(p)
    \/ LoadError(p)
    \/ SaveCreate(p)
    \/ SaveLock(p)
    \/ SaveDump(p)
    \/ SaveUnlock(p)
    \/ SaveFlush(p)
    \/ SaveFsync(p)
    \/ SaveClose(p)
    \/ SaveMove(p)
    \/ SaveFail(p)
    \/ \E id \in ids, note \in notes : SetNote(p, id, note)
    \/ ClearAllNotes(p)
    \/ Reload(p)
    \/ \E table \in tables, with_ids \in BOOLEAN : Merge(p, table, with_ids)
    \/ Return(p)
    \/ Exit(p)
    \/ Crash(p)

\* One dashboard process sets every note, one store instance after the
\* other.
Next == Step("p1", Ids, RawNotes, {<<>>})

Spec == Init /\ [][Next]_vars

\* The backing file may also be deleted or corrupted from outside.
NextDamage == Next \/ ExternalDamage

SpecDamage == Init /\ [][NextDamage]_vars

\* One dashboard process merges the notes it sets into every table.
NextTable == Step("p1", Ids, SharedNotes, Tables)

SpecTable == Init /\ [][NextTable]_vars

\* Two processes share the backing file, their steps interleaved.
NextShared == \E p \in Procs : Step(p, SharedIds, SharedNotes, {<<>>})

SpecShared == Init /\ [][NextShared]_vars

\* Two processes load, set a note and save on the shared backing file.  A
\* process whose flock can be granted gets it: the kernel grants a lock that
\* no lock of another process excludes, and a running process is scheduled.
LockStep(p) ==
    \/ New(p)
    \/ EnsureExists(p)
    \/ LoadOpen(p)
    \/ LoadLock(p)
    \/ LoadRead(p)
    \/ LoadUnlock(p)
    \/ LoadClose(p)
    \/ LoadError(p)
    \/ SaveCreate(p)
    \/ SaveLock(p)
    \/ SaveDump(p)
    \/ SaveUnlock(p)
    \/ SaveFlush(p)
    \/ SaveFsync(p)
    \/ SaveClose(p)
    \/ SaveMove(p)
    \/ SaveFail(p)
    \/ \E id \in SharedIds : SetNote(p, id, <<"a">>)
    \/ Reload(p)
    \/ Return(p)
    \/ Crash(p)
NextLocks == \E p \in Procs : LockStep(p)

SpecLocks ==
    Init /\ [][NextLocks]_vars /\ \A p \in Procs : WF_vars(LoadLock(p)) /\ WF_vars(SaveLock(p))

\* Two processes share the backing file, each setting the note of an id of
\* its own and reloading, with no step that raises and no crash.
OwnIds(p) == IF p = "p1" THEN SharedIds ELSE Ids \ SharedIds
PairStep(p) ==
    \/ New(p)
    \/ EnsureExists(p)
    \/ LoadOpen(p)
    \/ LoadLock(p)
    \/ LoadRead(p)
    \/ LoadUnlock(p)
    \/ LoadClose(p)
    \/ SaveCreate(p)
    \/ SaveLock(p)
    \/ SaveDump(p)
    \/ SaveUnlock(p)
    \/ SaveFlush(p)
    \/ SaveFsync(p)
    \/ SaveClose(p)
    \/ SaveMove(p)
    \/ \E id \in OwnIds(p) : SetNote(p, id, <<"a">>)
    \/ Reload(p)
    \/ Return(p)
NextPair == \E p \in Procs : PairStep(p)

SpecPair == Init /\ [][NextPair]_vars

\* One dashboard process also backs its store up.
NextBackup == Step("p1", SharedIds, SharedNotes, {<<>>}) \/ BackupNotes("p1")

SpecBackup == Init /\ [][NextBackup]_vars

\* One dashboard process sets notes and asks for the statistics.
StatNotes == {<<>>, <<"a", "b", "c">>, <<"d", "e">>}
NextStats == Step("p1", Ids, StatNotes, {<<>>}) \/ GetStatistics("p1")

SpecStats == Init /\ [][NextStats]_vars

\* ---------------------------------------------------- bank statements
\* Text is a sequence of characters, as above.  A cell read_csv found empty
\* is NaN, written <<>>.
NaN == <<>>

LowerCase ==
    <<"a", "b", "c", "d", "e", "f", "g", "h", "i", "j", "k", "l", "m",
      "n", "o", "p", "q", "r", "s", "t", "u", "v", "w", "x", "y", "z">>
UpperCase ==
    <<"A", "B", "C", "D", "E", "F", "G", "H", "I", "J", "K", "L", "M",
      "N", "O", "P", "Q", "R", "S", "T", "U", "V", "W", "X", "Y", "Z">>

\* The upper-case letter of each lower-case one.
UpperOf ==
    [c \in {LowerCase[k] : k \in DOMAIN LowerCase} |->
        UpperCase[CHOOSE k \in DOMAIN LowerCase : LowerCase[k] = c]]

\* What case=False compares: the text with its letters in upper case.
upper(s) == [i \in 1..Len(s) |-> IF s[i] \in DOMAIN UpperOf THEN UpperOf[s[i]] ELSE s[i]]

\* Series.str.contains(pattern, case=False, na=False) on one cell; the
\* patterns hold letters and spaces only, so the regular expression is the
\* text itself.
str_contains(cell, pattern) ==
    /\ cell # NaN
    /\ LET text == upper(cell)
           sought == upper(pattern)
       IN  \E i \in 0..(Len(text) - Len(sought)) : SubSeq(text, i + 1, i + Len(sought)) = sought

CREDIT_CARD_PAYMENT ==
    <<"C", "R", "E", "D", "I", "T", " ", "C", "A", "R", "D", " ", "P", "A", "Y", "M", "E", "N", "T">>
CC_PAYMENT == <<"C", "C", " ", "P", "A", "Y", "M", "E", "N", "T">>
CARD_PAYMENT == <<"C", "A", "R", "D", " ", "P", "A", "Y", "M", "E", "N", "T">>
PAYMENT_THANK_YOU == <<"P", "A", "Y", "M", "E", "N", "T", " ", "T", "H", "A", "N", "K", " ", "Y", "O", "U">>
AUTOPAY == <<"A", "U", "T", "O", "P", "A", "Y">>
ONLINE_PAYMENT == <<"O", "N", "L", "I", "N", "E", " ", "P", "A", "Y", "M", "E", "N", "T">>
MOBILE_PAYMENT == <<"M", "O", "B", "I", "L", "E", " ", "P", "A", "Y", "M", "E", "N", "T">>
ACH_DEPOSIT_INTERNET_TRANSFER ==
    <<"A", "C", "H", " ", "D", "E", "P", "O", "S", "I", "T", " ", "I", "N", "T", "E", "R", "N", "E", "T",
      " ", "T", "R", "A", "N", "S", "F", "E", "R">>

\* payment_patterns of the wells_fargo branch, generic_payment_patterns.
payment_patterns == <<CREDIT_CARD_PAYMENT, CC_PAYMENT, CARD_PAYMENT>>
generic_payment_patterns ==
    <<PAYMENT_THANK_YOU, AUTOPAY, ONLINE_PAYMENT, MOBILE_PAYMENT, ACH_DEPOSIT_INTERNET_TRANSFER>>

\* A table is a sequence of rows, a row a record of its cells by column.
Columns(table) == IF table = <<>> THEN {} ELSE DOMAIN table[1]

\* df_filtered[~df_filtered[column].str.contains(pattern, ...)] for only the
\* first pattern that matches a row.
RECURSIVE drop_first_matching_pattern(_, _, _)
drop_first_matching_pattern(table, column, patterns) ==
    IF patterns = <<>> THEN table
    ELSE LET kept == SelectSeq(table, LAMBDA r : ~str_contains(r[column], Head(patterns)))
         IN  IF kept # table THEN kept ELSE drop_first_matching_pattern(table, column, Tail(patterns))

\* for pattern in patterns: df_filtered = df_filtered[~df_filtered[column]
\* .str.contains(pattern, case=False, na=False)]
RECURSIVE drop_patterns(_, _, _)
drop_patterns(table, column, patterns) ==
    IF patterns = <<>> THEN table
    ELSE drop_patterns(SelectSeq(table, LAMBDA r : ~str_contains(r[column], Head(patterns))),
                       column, Tail(patterns))

\* The chase branch reading only the normalized column.
chase_rule_normalized_only(table) ==
    IF "type" \in Columns(table) THEN SelectSeq(table, LAMBDA r : r.type # "Payment")
    ELSE table

\* The chase branch.
chase_rule(table) ==
    IF "Type" \in Columns(table) THEN SelectSeq(table, LAMBDA r : r.Type # "Payment")
    ELSE IF "type" \in Columns(table) THEN SelectSeq(table, LAMBDA r : r.type # "Payment")
    ELSE table

\* The apple_card branch with | in place of &.
apple_card_rule_either(table) ==
    IF {"Type", "Category"} \subseteq Columns(table)
    THEN SelectSeq(table, LAMBDA r : ~(r.Type = "Payment" \/ r.Category = "Payment"))
    ELSE IF {"type", "category"} \subseteq Columns(table)
    THEN SelectSeq(table, LAMBDA r : ~(r.type = "Payment" \/ r.category = "Payment"))
    ELSE table

\* The apple_card branch.
apple_card_rule(table) ==
    IF {"Type", "Category"} \subseteq Columns(table)
    THEN SelectSeq(table, LAMBDA r : ~(r.Type = "Payment" /\ r.Category = "Payment"))
    ELSE IF {"type", "category"} \subseteq Columns(table)
    THEN SelectSeq(table, LAMBDA r : ~(r.type = "Payment" /\ r.category = "Payment"))
    ELSE table

\* The wells_fargo branch.
wells_fargo_rule(table) ==
    IF "description" \in Columns(table) THEN drop_patterns(table, "description", payment_patterns)
    ELSE IF "merchant" \in Columns(table) THEN drop_patterns(table, "merchant", payment_patterns)
    ELSE table

\* The pass after the branches; columns are those of the table the call got.
generic_rule(table, columns) ==
    IF "description" \in columns THEN drop_patterns(table, "description", generic_payment_patterns)
    ELSE table

\* The columns the call applies .str to.
StrColumns(table, bank_name) ==
    {c \in {"description"} : c \in Columns(table)}
    \cup (IF bank_name = "wells_fargo" /\ "description" \notin Columns(table)
          THEN {c \in {"merchant"} : c \in Columns(table)} ELSE {})

\* A column read_csv found empty in every row holds floats, and .str on it
\* raises AttributeError.
filter_raises(table, bank_name, filter_payments) ==
    /\ table # <<>>
    /\ filter_payments
    /\ \E c \in StrColumns(table, bank_name) : \A i \in DOMAIN table : table[i][c] = NaN

\* filter_credit_card_payments with the enabled flag ignored.
filter_always(table, bank_name, filter_payments) ==
    IF table = <<>> THEN table
    ELSE generic_rule(CASE bank_name = "chase" -> chase_rule(table)
                        [] bank_name = "apple_card" -> apple_card_rule(table)
                        [] bank_name = "wells_fargo" -> wells_fargo_rule(table)
                        [] OTHER -> table,
                      Columns(table))

\* filter_credit_card_payments(df, bank_name), when it does not raise.
filter_credit_card_payments(table, bank_name, filter_payments) ==
    IF table = <<>> \/ ~filter_payments THEN table
    ELSE generic_rule(CASE bank_name = "chase" -> chase_rule(table)
                        [] bank_name = "apple_card" -> apple_card_rule(table)
                        [] bank_name = "wells_fargo" -> wells_fargo_rule(table)
                        [] OTHER -> table,
                      Columns(table))

\* len(df_filtered) - len(df)
rows_removed_negated(table, df_filtered) == Len(df_filtered) - Len(table)

\* rows_removed = len(df) - len(df_filtered)
rows_removed(table, df_filtered) == Len(table) - Len(df_filtered)

\* Descriptions of the statements the tests read, and three more.
PaymentThankYouMobile ==
    <<"P", "a", "y", "m", "e", "n", "t", " ", "T", "h", "a", "n", "k", " ", "Y", "o", "u", "-", "M", "o",
      "b", "i", "l", "e">>
HEB659 == <<"H", "-", "E", "-", "B", " ", "#", "6", "5", "9">>
AutopayText == <<"A", "u", "t", "o", "p", "a", "y">>
CcPaymentText == <<"C", "C", " ", "P", "a", "y", "m", "e", "n", "t">>
HctraEzTagRebill ==
    <<"H", "C", "T", "R", "A", " ", "E", "Z", " ", "T", "A", "G", " ", "R", "E", "B", "I", "L", "L">>
AchDepositFrom7240 ==
    <<"A", "C", "H", " ", "D", "E", "P", "O", "S", "I", "T", " ", "I", "N", "T", "E", "R", "N", "E", "T",
      " ", "T", "R", "A", "N", "S", "F", "E", "R", " ", "F", "R", "O", "M", " ", "A", "C", "C",
      "O", "U", "N", "T", " ", "E", "N", "D", "I", "N", "G", " ", "I", "N", " ", "7", "2", "4",
      "0">>
AppleCaffePl5 == <<"A", "P", "P", "L", "E", " ", "C", "A", "F", "F", "E", " ", "P", "L", "5">>

Descriptions == {PaymentThankYouMobile, HEB659, AutopayText, CcPaymentText, NaN}
Types == {"Payment", "Sale"}
Categories == {"Payment", "Travel"}

\* Rows of a statement as exported (Type, Category, Description), of one
\* with the normalized column names, and of a Wells Fargo export (merchant).
ExportedRows ==
    [Type : Types, Category : Categories,
     Description : {PaymentThankYouMobile, HEB659, AutopayText}]
NormalizedRows == [type : Types, category : Categories, description : Descriptions]
MerchantRows == [merchant : Descriptions]

\* The statements of test_chase_filtering, test_apple_card_filtering and
\* test_no_filtering.
chase_data ==
    <<[Type |-> "Payment", Category |-> "", Description |-> PaymentThankYouMobile],
      [Type |-> "Sale", Category |-> "Travel", Description |-> HctraEzTagRebill],
      [Type |-> "Sale", Category |-> "Groceries", Description |-> HEB659]>>
apple_data ==
    <<[Type |-> "Payment", Category |-> "Payment", Description |-> AchDepositFrom7240],
      [Type |-> "Purchase", Category |-> "Restaurants", Description |-> AppleCaffePl5],
      [Type |-> "Purchase", Category |-> "Restaurants", Description |-> AppleCaffePl5]>>
chase_data_unfiltered ==
    <<[Type |-> "Payment", Description |-> PaymentThankYouMobile],
      [Type |-> "Sale", Description |-> HEB659]>>

Statements ==
    UNION {[1..n -> R] : n \in 0..MaxStatementRows, R \in {ExportedRows, NormalizedRows, MerchantRows}}
    \cup {chase_data, apple_data, chase_data_unfiltered}

BankNames == {"chase", "apple_card", "wells_fargo", "other_bank"}

store == <<pc, notes_data, caller, saveErr, frame, files, disk, backup_file>>

\* BankStatementReader(data_folder, config_folder, filter_payments)
NewReader(filter_payments, schema_configs) ==
    /\ ~reader.built
    /\ reader' = [built |-> TRUE, filter_payments |-> filter_payments,
                  schema_configs |-> schema_configs]
    /\ UNCHANGED <<call, normalizer, store>>

\* reader.filter_credit_card_payments(df, bank_name), for every statement
\* and bank.  printed is the count the message reports (the message is
\* printed when it is positive).
FilterCreditCardPayments ==
    /\ reader.built
    /\ call.fn = "none"
    /\ \E table \in Statements, bank_name \in BankNames :
          call' = IF filter_raises(table, bank_name, reader.filter_payments)
                  THEN [fn |-> "filter", df |-> table, bank_name |-> bank_name, raised |-> TRUE,
                        out |-> <<>>, printed |-> 0]
                  ELSE LET df_filtered ==
                               filter_credit_card_payments(table, bank_name, reader.filter_payments)
                       IN  [fn |-> "filter", df |-> table, bank_name |-> bank_name, raised |-> FALSE,
                            out |-> df_filtered, printed |-> rows_removed(table, df_filtered)]
    /\ UNCHANGED <<reader, normalizer, store>>

\* The call returns.
ReaderReturn ==
    /\ call.fn # "none"
    /\ call' = NoCall
    /\ UNCHANGED <<reader, normalizer, store>>

\* A reader, with filtering enabled or not, filters every statement.
NextFilter ==
    \/ \E filter_payments \in BOOLEAN : NewReader(filter_payments, <<>>)
    \/ FilterCreditCardPayments
    \/ ReaderReturn

SpecFilter == Init /\ [][NextFilter]_vars

\* --------------------------------------------------- amount handling
\* A number is kept in cents; NotANumber is the float NaN.
Num(cents) == [nan |-> FALSE, cents |-> cents]
NotANumber == [nan |-> TRUE, cents |-> 0]

Digits == <<"0", "1", "2", "3", "4", "5", "6", "7", "8", "9">>
IsDigits(s) == \A i \in DOMAIN s : \E d \in DOMAIN Digits : Digits[d] = s[i]

\* The number a sequence of digits writes.
RECURSIVE NatOf(_)
NatOf(s) ==
    IF s = <<>> THEN 0
    ELSE 10 * NatOf(SubSeq(s, 1, Len(s) - 1))
         + (CHOOSE d \in DOMAIN Digits : Digits[d] = s[Len(s)]) - 1

\* pd.to_numeric(cell, errors='coerce') on a cell of text written as a
\* statement writes amounts: an optional minus sign, digits, and at most two
\* decimals after a point.  Any other text, and the empty cell, is NaN.
to_numeric(cell) ==
    LET negative == cell # <<>> /\ Head(cell) = "-"
        body == IF negative THEN Tail(cell) ELSE cell
        points == {i \in DOMAIN body : body[i] = "."}
        point == IF points = {} THEN Len(body) + 1 ELSE CHOOSE i \in points : TRUE
        whole == SubSeq(body, 1, point - 1)
        decimals == SubSeq(body, point + 1, Len(body))
        magnitude == 100 * NatOf(whole)
                     + (IF Len(decimals) = 1 THEN 10 ELSE 1) * NatOf(decimals)
    IN  IF /\ Cardinality(points) <= 1
           /\ whole \o decimals # <<>>
           /\ IsDigits(whole)
           /\ IsDigits(decimals)
           /\ Len(decimals) <= 2
        THEN Num(IF negative THEN -magnitude ELSE magnitude)
        ELSE NotANumber

\* -df['amount'], and fillna(0)
negated(a) == IF a.nan THEN a ELSE Num(-a.cents)
fillna0(a) == IF a.nan THEN Num(0) ELSE a
plus(a, b) == IF a.nan \/ b.nan THEN NotANumber ELSE Num(a.cents + b.cents)

\* amount_config.get('sign_convention', 'negative_for_debits')
sign_convention(amount_config) ==
    IF "sign_convention" \in DOMAIN amount_config THEN amount_config.sign_convention
    ELSE "negative_for_debits"

\* The single_column branch with no sign flipped.
single_column_amount_unsigned(cell, amount_config) == to_numeric(cell)

\* The single_column branch for one cell.
single_column_amount(cell, amount_config) ==
    IF sign_convention(amount_config) = "positive_for_purchases_negative_for_payments"
    THEN to_numeric(cell)
    ELSE IF sign_convention(amount_config) = "negative_for_debits"
    THEN negated(to_numeric(cell))
    ELSE to_numeric(cell)

\* The split_columns branch for one row's two cells.
split_columns_amount(debit, credit) == plus(fillna0(to_numeric(debit)), fillna0(to_numeric(credit)))

\* normalize_amount_column(df, amount_config)
normalize_amount_column(table, amount_config) ==
    IF amount_config.type = "single_column"
    THEN IF amount_config.column \in Columns(table)
         THEN [i \in DOMAIN table |->
                  WithColumn(table[i], "amount",
                             single_column_amount(table[i][amount_config.column], amount_config))]
         ELSE table
    ELSE IF amount_config.type = "split_columns"
    THEN IF {amount_config.debit_column, amount_config.credit_column} \subseteq Columns(table)
         THEN [i \in DOMAIN table |->
                  WithColumn(table[i], "amount",
                             split_columns_amount(table[i][amount_config.debit_column],
                                                  table[i][amount_config.credit_column]))]
         ELSE table
    ELSE table

\* Amount cells: those of the sign examples, text that is no number, NaN.
Minus2139 == <<"-", "2", "1", ".", "3", "9">>
Plus800 == <<"8", ".", "0", "0">>
Minus18553 == <<"-", "1", "8", "5", ".", "5", "3">>
NotAvailable == <<"n", "/", "a">>
Plus2139 == <<"2", "1", ".", "3", "9">>

AmountCells == {Minus2139, Plus800, Minus18553, NotAvailable, NaN}
SplitCells == {Plus2139, Plus800, NotAvailable, NaN}

\* Rows of a statement with one amount column, and with a debit and a credit
\* column.
SingleRows == [Amount : AmountCells]
SplitRows == [Debit : SplitCells, Credit : SplitCells]

\* amount_handling of a format: a single column, present in the statement or
\* not, with a sign convention, an unknown one, or none; or split columns.
SingleConfigs ==
    {[type |-> "single_column", column |-> c] : c \in {"Amount", "Amount (USD)"}}
    \cup [type : {"single_column"}, column : {"Amount", "Amount (USD)"},
          sign_convention : {"positive_for_purchases_negative_for_payments",
                             "negative_for_debits", "positive_for_debits"}]
SplitConfigs ==
    [type : {"split_columns"}, debit_column : {"Debit"}, credit_column : {"Credit", "Deposit"}]

\* reader.normalize_amount_column(df, amount_config), for every statement
\* and amount_handling.
NormalizeAmountColumn ==
    /\ reader.built
    /\ call.fn = "none"
    /\ \E n \in 0..MaxStatementRows, R \in {SingleRows, SplitRows} :
          \E table \in [1..n -> R], amount_config \in SingleConfigs \cup SplitConfigs :
              call' = [fn |-> "amount", df |-> table, amount_config |-> amount_config,
                       out |-> normalize_amount_column(table, amount_config)]
    /\ UNCHANGED <<reader, normalizer, store>>

\* A reader normalizes the amounts of every statement.
NextAmount ==
    \/ \E filter_payments \in BOOLEAN : NewReader(filter_payments, <<>>)
    \/ NormalizeAmountColumn
    \/ ReaderReturn

SpecAmount == Init /\ [][NextAmount]_vars

\* --------------------------------------------------- format detection
\* Optional[Dict]: None is <<>>, a mapping m is <<m>>.
\* The last mapping of the list whose columns are all there.
RECURSIVE last_match(_, _)
last_match(schema_mappings, columns) ==
    IF schema_mappings = <<>> THEN <<>>
    ELSE LET mapping == schema_mappings[Len(schema_mappings)]
             required_columns == {mapping.column_mappings[c] : c \in DOMAIN mapping.column_mappings}
         IN  IF required_columns \subseteq columns THEN <<mapping>>
             ELSE last_match(SubSeq(schema_mappings, 1, Len(schema_mappings) - 1), columns)

\* for mapping in schema_mappings: if all(col in df.columns for col in
\* required_columns): return mapping
RECURSIVE first_match(_, _)
first_match(schema_mappings, columns) ==
    IF schema_mappings = <<>> THEN <<>>
    ELSE LET mapping == Head(schema_mappings)
             required_columns == {mapping.column_mappings[c] : c \in DOMAIN mapping.column_mappings}
         IN  IF required_columns \subseteq columns THEN <<mapping>>
             ELSE first_match(Tail(schema_mappings), columns)

\* detect_csv_format(df, bank_name), df given by its columns.
detect_csv_format(columns, bank_name, schema_configs) ==
    IF bank_name \notin DOMAIN schema_configs THEN <<>>
    ELSE LET config == schema_configs[bank_name]
             schema_mappings ==
                 IF "schema_mappings" \in DOMAIN config THEN config.schema_mappings ELSE <<>>
         IN  first_match(schema_mappings, columns)

\* Formats of a bank: by transaction date, by post date, by the amount alone,
\* and one that maps no column.
Mappings ==
    {[format_name |-> "by_transaction_date",
      column_mappings |-> [date |-> "Transaction Date", description |-> "Description",
                           amount |-> "Amount"]],
     [format_name |-> "by_post_date",
      column_mappings |-> [date |-> "Post Date", amount |-> "Amount"]],
     [format_name |-> "amount_only", column_mappings |-> [amount |-> "Amount"]],
     [format_name |-> "no_columns", column_mappings |-> <<>>]}

RawColumns == {"Transaction Date", "Post Date", "Description", "Amount"}

\* What load_schema_configs may have loaded: nothing, or a config for chase,
\* with a list of formats or without the schema_mappings key.
SchemaConfigs ==
    {<<>>, [b \in {"chase"} |-> [bank_name |-> "chase"]]}
    \cup {[b \in {"chase"} |-> [bank_name |-> "chase", schema_mappings |-> ms]] :
             ms \in UNION {[1..n -> Mappings] : n \in 0..MaxMappings}}

\* reader.detect_csv_format(df, bank_name), for every set of columns.
DetectCsvFormat ==
    /\ reader.built
    /\ call.fn = "none"
    /\ \E columns \in SUBSET RawColumns, bank_name \in {"chase", "apple_card"} :
          call' = [fn |-> "detect", columns |-> columns, bank_name |-> bank_name,
                   out |-> detect_csv_format(columns, bank_name, reader.schema_configs)]
    /\ UNCHANGED <<reader, normalizer, store>>

\* A reader with any of the configs detects the format of every statement.
NextDetect ==
    \/ \E schema_configs \in SchemaConfigs : NewReader(TRUE, schema_configs)
    \/ DetectCsvFormat
    \/ ReaderReturn

SpecDetect == Init /\ [][NextDetect]_vars

\* ------------------------------------------------------ normalization
\* A parsed date, and NaT.
Date(year, month, day) == [nat |-> FALSE, year |-> year, month |-> month, day |-> day]
NaT == [nat |-> TRUE, year |-> 0, month |-> 0, day |-> 0]

\* The date formats the configs name: month/day/year, and year-month-day,
\* which is also the default.
MonthDayYear == "%m/%d/%Y"
YearMonthDay == "%Y-%m-%d"

\* The date of a cell written as the format says, two digits for the month
\* and the day and four for the year; NaT for any other text and for NaN.
strptime(cell, date_format) ==
    LET at == IF date_format = MonthDayYear
              THEN [sep |-> "/", seps |-> {3, 6}, year |-> 7, month |-> 1, day |-> 4]
              ELSE [sep |-> "-", seps |-> {5, 8}, year |-> 1, month |-> 6, day |-> 9]
        year == SubSeq(cell, at.year, at.year + 3)
        month == SubSeq(cell, at.month, at.month + 1)
        day == SubSeq(cell, at.day, at.day + 1)
    IN  IF /\ date_format \in {MonthDayYear, YearMonthDay}
           /\ Len(cell) = 10
           /\ \A i \in at.seps : cell[i] = at.sep
           /\ IsDigits(year \o month \o day)
           /\ NatOf(month) \in 1..12
           /\ NatOf(day) \in 1..31
        THEN Date(NatOf(year), NatOf(month), NatOf(day))
        ELSE NaT

\* pd.to_datetime(cell, errors='coerce') without a format: either layout.
to_datetime(cell) ==
    IF ~strptime(cell, MonthDayYear).nat THEN strptime(cell, MonthDayYear)
    ELSE strptime(cell, YearMonthDay)

\* normalize_date_column(df, date_col, date_format)
normalize_date_column(table, date_col, date_format) ==
    IF date_col \in Columns(table)
    THEN LET parsed == [i \in DOMAIN table |-> strptime(table[i][date_col], date_format)]
             dates == IF \A i \in DOMAIN table : parsed[i].nat
                      THEN [i \in DOMAIN table |-> to_datetime(table[i][date_col])]
                      ELSE parsed
         IN  [i \in DOMAIN table |-> WithColumn(table[i], "date", dates[i])]
    ELSE table

\* for common_name, original_name in column_mappings.items(): the row with
\* each mapped column copied under its common name.
map_columns(row, column_mappings) ==
    LET copied == {c \in DOMAIN column_mappings :
                      column_mappings[c] \in DOMAIN row /\ c # column_mappings[c]}
    IN  [x \in DOMAIN row \cup copied |-> IF x \in copied THEN row[column_mappings[x]] ELSE row[x]]

\* normalize_dataframe without the bank column.
normalize_dataframe_unstamped(table, bank_name, schema_configs) ==
    IF table = <<>> THEN table
    ELSE LET found == detect_csv_format(Columns(table), bank_name, schema_configs)
         IN  IF found = <<>> THEN table
             ELSE LET format_config == found[1]
                      column_mappings == format_config.column_mappings
                      mapped == [i \in DOMAIN table |-> map_columns(table[i], column_mappings)]
                      with_amount ==
                          IF "amount_handling" \in DOMAIN format_config
                          THEN normalize_amount_column(mapped, format_config.amount_handling)
                          ELSE mapped
                      date_format ==
                          IF "date_format" \in DOMAIN format_config
                          THEN format_config.date_format ELSE YearMonthDay
                  IN  IF "date" \in DOMAIN column_mappings
                      THEN normalize_date_column(with_amount, column_mappings.date, date_format)
                      ELSE with_amount

\* normalize_dataframe keeping only the rows whose date and amount parsed.
normalize_dataframe_dropna(table, bank_name, schema_configs) ==
    IF table = <<>> THEN table
    ELSE LET found == detect_csv_format(Columns(table), bank_name, schema_configs)
         IN  IF found = <<>> THEN table
             ELSE SelectSeq([i \in DOMAIN table |->
                                WithColumn(normalize_dataframe_unstamped(table, bank_name, schema_configs)[i],
                                           "bank", bank_name)],
                            LAMBDA r : /\ "date" \in DOMAIN r => ~r.date.nat
                                       /\ "amount" \in DOMAIN r => ~r.amount.nan)

\* normalize_dataframe(df, bank_name)
normalize_dataframe(table, bank_name, schema_configs) ==
    IF table = <<>> THEN table
    ELSE LET found == detect_csv_format(Columns(table), bank_name, schema_configs)
         IN  IF found = <<>> THEN table
             ELSE LET format_config == found[1]
                      column_mappings == format_config.column_mappings
                      mapped == [i \in DOMAIN table |-> map_columns(table[i], column_mappings)]
                      with_amount ==
                          IF "amount_handling" \in DOMAIN format_config
                          THEN normalize_amount_column(mapped, format_config.amount_handling)
                          ELSE mapped
                      date_format ==
                          IF "date_format" \in DOMAIN format_config
                          THEN format_config.date_format ELSE YearMonthDay
                      with_date ==
                          IF "date" \in DOMAIN column_mappings
                          THEN normalize_date_column(with_amount, column_mappings.date, date_format)
                          ELSE with_amount
                  IN  [i \in DOMAIN table |-> WithColumn(with_date[i], "bank", bank_name)]

\* Date cells: the two layouts, text that is no date, NaN.
July13 == <<"0", "7", "/", "1", "3", "/", "2", "0", "2", "5">>
July12Iso == <<"2", "0", "2", "5", "-", "0", "7", "-", "1", "2">>
DateCells == {July13, July12Iso, NotAvailable, NaN}

\* Rows of a credit card export and of a checking account export.
CardRows ==
    {("Transaction Date" :> d) @@ ("Description" :> HEB659) @@ ("Amount" :> a) :
        d \in DateCells, a \in AmountCells}
CheckingRows ==
    {("Date" :> d) @@ ("Debit" :> debit) @@ ("Credit" :> credit) :
        d \in {July13, NotAvailable}, debit \in SplitCells, credit \in SplitCells}

\* Formats: a card format with its date format and sign convention, one
\* with neither (the defaults apply), a checking format with split columns,
\* and one that maps the description only.
CardFormat ==
    [format_name |-> "card",
     column_mappings |-> [date |-> "Transaction Date", description |-> "Description",
                          amount |-> "Amount"],
     amount_handling |-> [type |-> "single_column", column |-> "Amount",
                          sign_convention |-> "negative_for_debits"],
     date_format |-> MonthDayYear]
CardFormatDefaults ==
    [format_name |-> "card_defaults",
     column_mappings |-> [date |-> "Transaction Date", description |-> "Description",
                          amount |-> "Amount"],
     amount_handling |-> [type |-> "single_column", column |-> "Amount"]]
CheckingFormat ==
    [format_name |-> "checking",
     column_mappings |-> [date |-> "Date"],
     amount_handling |-> [type |-> "split_columns", debit_column |-> "Debit",
                          credit_column |-> "Credit"],
     date_format |-> MonthDayYear]
DescriptionFormat ==
    [format_name |-> "description_only", column_mappings |-> [description |-> "Description"]]

\* What the reader may have loaded for chase.
NormalizeConfigs ==
    {<<>>}
    \cup {[b \in {"chase"} |-> [bank_name |-> "chase", schema_mappings |-> ms]] :
             ms \in {<<CardFormat>>, <<CardFormatDefaults>>, <<CheckingFormat, CardFormat>>,
                     <<DescriptionFormat>>}}

\* reader.normalize_dataframe(df, bank_name), for every statement.
NormalizeDataframe ==
    /\ reader.built
    /\ call.fn = "none"
    /\ \E n \in 0..MaxStatementRows, R \in {CardRows, CheckingRows} :
          \E table \in [1..n -> R], bank_name \in {"chase", "apple_card"} :
              call' = [fn |-> "normalize", df |-> table, bank_name |-> bank_name,
                       out |-> normalize_dataframe(table, bank_name, reader.schema_configs)]
    /\ UNCHANGED <<reader, normalizer, store>>

\* A reader with any of the configs normalizes every statement.
NextNormalize ==
    \/ \E schema_configs \in NormalizeConfigs : NewReader(TRUE, schema_configs)
    \/ NormalizeDataframe
    \/ ReaderReturn

SpecNormalize == Init /\ [][NextNormalize]_vars

\* ------------------------------------------------------------ the pipeline

\* pd.concat(all_data, ignore_index=True): the rows of every frame in turn,
\* each with the columns of all of them, NaN where its frame had none.
RECURSIVE Flatten(_)
Flatten(frames) ==
    IF frames = <<>> THEN <<>> ELSE Head(frames) \o Flatten(Tail(frames))
concat(all_data) ==
    LET rows == Flatten(all_data)
        columns == UNION {DOMAIN rows[i] : i \in DOMAIN rows}
    IN  [i \in DOMAIN rows |->
            [c \in columns |-> IF c \in DOMAIN rows[i] THEN rows[i][c] ELSE NaN]]

\* df['source_file'] = os.path.basename(csv_file)
with_source_file(table, csv_file) ==
    [i \in DOMAIN table |-> WithColumn(table[i], "source_file", csv_file)]

\* The body of the loop of read_bank_statements for one file: the frame
\* appended to all_data, or none when the body raised.
read_file(table, csv_file, bank_name, filter_payments, schema_configs) ==
    LET raw == with_source_file(table, csv_file)
    IN  IF filter_raises(raw, bank_name, filter_payments) THEN <<>>
        ELSE <<normalize_dataframe(filter_credit_card_payments(raw, bank_name, filter_payments),
                                   bank_name, schema_configs)>>

\* read_bank_statements(bank_name) over the files of the bank's folder.
RECURSIVE all_data_of(_, _, _, _, _)
all_data_of(csv_files, k, bank_name, filter_payments, schema_configs) ==
    IF k > Len(csv_files) THEN <<>>
    ELSE read_file(csv_files[k].rows, csv_files[k].name, bank_name, filter_payments, schema_configs)
         \o all_data_of(csv_files, k + 1, bank_name, filter_payments, schema_configs)
read_bank_statements(csv_files, bank_name, filter_payments, schema_configs) ==
    concat(all_data_of(csv_files, 1, bank_name, filter_payments, schema_configs))

\* Rows of a card export, and rows of a file whose description column is
\* empty; the files of a folder, in glob order.
PipelineRows ==
    {("Type" :> t) @@ ("Description" :> d) @@ ("Transaction Date" :> July13)
        @@ ("Amount" :> Minus2139) : t \in Types, d \in {HEB659, AutopayText}}
EmptyDescriptionRows == [description : {NaN}]
PipelineTables ==
    UNION {[1..n -> R] : n \in 0..MaxStatementRows, R \in {PipelineRows, EmptyDescriptionRows}}
FileNames == <<"activity1.csv", "activity2.csv">>
Folders ==
    UNION {{[k \in 1..n |-> [name |-> FileNames[k], rows |-> tables[k]]] :
               tables \in [1..n -> PipelineTables]} : n \in 0..MaxFiles}

\* reader.read_bank_statements(bank_name), for every folder.
ReadBankStatements ==
    /\ reader.built
    /\ call.fn = "none"
    /\ \E csv_files \in Folders, bank_name \in {"chase", "apple_card"} :
          call' = [fn |-> "read", csv_files |-> csv_files, bank_name |-> bank_name,
                   out |-> read_bank_statements(csv_files, bank_name, reader.filter_payments,
                                                reader.schema_configs)]
    /\ UNCHANGED <<reader, normalizer, store>>

\* A reader with or without the card format, filtering or not, reads every
\* folder.
PipelineConfigs ==
    {<<>>, [b \in {"chase"} |-> [bank_name |-> "chase", schema_mappings |-> <<CardFormat>>]]}
NextPipeline ==
    \/ \E filter_payments \in BOOLEAN, schema_configs \in PipelineConfigs :
          NewReader(filter_payments, schema_configs)
    \/ ReadBankStatements
    \/ ReaderReturn

SpecPipeline == Init /\ [][NextPipeline]_vars

\* ------------------------------------------------------------- categories

\* The lower-case letter of each upper-case one, and str.lower().
LowerOf ==
    [c \in {UpperCase[k] : k \in DOMAIN UpperCase} |->
        LowerCase[CHOOSE k \in DOMAIN UpperCase : UpperCase[k] = c]]
lower(s) == [i \in 1..Len(s) |-> IF s[i] \in DOMAIN LowerOf THEN LowerOf[s[i]] ELSE s[i]]

\* key in text
IsSubstring(key, text) ==
    \E i \in 0..(Len(text) - Len(key)) : SubSeq(text, i + 1, i + Len(key)) = key

\* A dict is the sequence of its items, key and value, in insertion order.
\* The mapping create_default_mapping writes: each target with its sources.
default_mapping ==
    <<[target |-> <<"d", "i", "n", "i", "n", "g">>,
      sources |-> <<<<"r", "e", "s", "t", "a", "u", "r", "a", "n", "t">>, <<"r", "e", "s", "t", "a",
                    "u", "r", "a", "n", "t", "s">>, <<"f", "o", "o", "d">>, <<"d", "i", "n", "i",
                    "n", "g">>, <<"c", "a", "f", "e">>, <<"f", "a", "s", "t", " ", "f", "o", "o",
                    "d">>, <<"t", "a", "k", "e", "o", "u", "t">>>>],
      [target |-> <<"g", "r", "o", "c", "e", "r", "i", "e", "s">>,
      sources |-> <<<<"g", "r", "o", "c", "e", "r", "y">>, <<"g", "r", "o", "c", "e", "r", "i", "e",
                    "s">>, <<"s", "u", "p", "e", "r", "m", "a", "r", "k", "e", "t">>, <<"m", "a",
                    "r", "k", "e", "t">>, <<"f", "o", "o", "d", " ", "s", "t", "o", "r", "e">>>>],
      [target |-> <<"t", "r", "a", "n", "s", "p", "o", "r", "t", "a", "t", "i", "o", "n">>,
      sources |-> <<<<"g", "a", "s">>, <<"f", "u", "e", "l">>, <<"u", "b", "e", "r">>, <<"l", "y",
                    "f", "t">>, <<"t", "a", "x", "i">>, <<"b", "u", "s">>, <<"t", "r", "a", "i",
                    "n">>, <<"p", "a", "r", "k", "i", "n", "g">>>>],
      [target |-> <<"s", "h", "o", "p", "p", "i", "n", "g">>,
      sources |-> <<<<"a", "m", "a", "z", "o", "n">>, <<"w", "a", "l", "m", "a", "r", "t">>, <<"t",
                    "a", "r", "g", "e", "t">>, <<"s", "t", "o", "r", "e">>, <<"r", "e", "t", "a",
                    "i", "l">>, <<"p", "u", "r", "c", "h", "a", "s", "e">>>>],
      [target |-> <<"e", "n", "t", "e", "r", "t", "a", "i", "n", "m", "e", "n", "t">>,
      sources |-> <<<<"n", "e", "t", "f", "l", "i", "x">>, <<"s", "p", "o", "t", "i", "f", "y">>,
                    <<"h", "u", "l", "u">>, <<"m", "o", "v", "i", "e", "s">>, <<"g", "a", "m", "e",
                    "s">>, <<"s", "u", "b", "s", "c", "r", "i", "p", "t", "i", "o", "n">>>>],
      [target |-> <<"i", "n", "c", "o", "m", "e">>,
      sources |-> <<<<"s", "a", "l", "a", "r", "y">>, <<"p", "a", "y", "c", "h", "e", "c", "k">>,
                    <<"d", "e", "p", "o", "s", "i", "t">>, <<"i", "n", "c", "o", "m", "e">>, <<"w",
                    "a", "g", "e", "s">>, <<"b", "o", "n", "u", "s">>>>],
      [target |-> <<"h", "o", "u", "s", "i", "n", "g">>,
      sources |-> <<<<"r", "e", "n", "t">>, <<"m", "o", "r", "t", "g", "a", "g", "e">>, <<"p", "r",
                    "o", "p", "e", "r", "t", "y">>, <<"h", "o", "m", "e">>, <<"a", "p", "a", "r",
                    "t", "m", "e", "n", "t">>>>],
      [target |-> <<"u", "t", "i", "l", "i", "t", "i", "e", "s">>,
      sources |-> <<<<"e", "l", "e", "c", "t", "r", "i", "c">>, <<"w", "a", "t", "e", "r">>, <<"i",
                    "n", "t", "e", "r", "n", "e", "t">>, <<"p", "h", "o", "n", "e">>, <<"c", "a",
                    "b", "l", "e">>, <<"u", "t", "i", "l", "i", "t", "i", "e", "s">>>>],
      [target |-> <<"h", "e", "a", "l", "t", "h", "c", "a", "r", "e">>,
      sources |-> <<<<"m", "e", "d", "i", "c", "a", "l">>, <<"d", "o", "c", "t", "o", "r">>, <<"p",
                    "h", "a", "r", "m", "a", "c", "y">>, <<"h", "o", "s", "p", "i", "t", "a", "l">>,
                    <<"h", "e", "a", "l", "t", "h">>, <<"d", "e", "n", "t", "a", "l">>>>],
      [target |-> <<"i", "n", "s", "u", "r", "a", "n", "c", "e">>,
      sources |-> <<<<"i", "n", "s", "u", "r", "a", "n", "c", "e">>, <<"c", "o", "v", "e", "r", "a",
                    "g", "e">>, <<"p", "o", "l", "i", "c", "y">>, <<"p", "r", "e", "m", "i", "u",
                    "m">>>>],
      [target |-> <<"f", "e", "e", "s">>,
      sources |-> <<<<"a", "t", "m">>, <<"f", "e", "e">>, <<"c", "h", "a", "r", "g", "e">>, <<"p",
                    "e", "n", "a", "l", "t", "y">>, <<"s", "e", "r", "v", "i", "c", "e", " ", "f",
                    "e", "e">>>>],
      [target |-> <<"t", "r", "a", "n", "s", "f", "e", "r">>,
      sources |-> <<<<"t", "r", "a", "n", "s", "f", "e", "r">>, <<"p", "a", "y", "m", "e", "n",
                    "t">>, <<"w", "i", "r", "e">>, <<"c", "h", "e", "c", "k">>, <<"d", "e", "p",
                    "o", "s", "i", "t">>>>]>>

\* The loops of load_mapping: reverse_mapping[source.lower()] = target.lower()
\* for each target of the mapping and each of its sources, in order.  The
\* assignments in turn are assignments_of(mapping); the dict they leave holds
\* each key where its first assignment put it, with the value of its last.
RECURSIVE assignments_of(_)
assignments_of(mapping) ==
    IF mapping = <<>> THEN <<>>
    ELSE [k \in DOMAIN Head(mapping).sources |->
             [key |-> lower(Head(mapping).sources[k]), value |-> lower(Head(mapping).target)]]
         \o assignments_of(Tail(mapping))
reverse_of(mapping) ==
    LET assignments == assignments_of(mapping)
        numbered == [i \in DOMAIN assignments |-> [key |-> assignments[i].key, at |-> i]]
        firsts == SelectSeq(numbered,
                            LAMBDA e : \A j \in 1..(e.at - 1) : assignments[j].key # e.key)
        last(key) == CHOOSE i \in DOMAIN assignments :
                         /\ assignments[i].key = key
                         /\ \A j \in (i + 1)..Len(assignments) : assignments[j].key # key
    IN  [i \in DOMAIN firsts |->
            [key |-> firsts[i].key, value |-> assignments[last(firsts[i].key)].value]]

\* The reverse mapping of the default mapping.
default_reverse_mapping == reverse_of(default_mapping)

\* load_mapping(): the reverse mapping, or none when it raises.  A file that
\* is not there is created with the default mapping and loaded; only
\* FileNotFoundError is caught.
load_mapping(document) ==
    CASE document.kind = "missing" -> <<default_reverse_mapping>>
      [] document.kind = "ok" -> <<reverse_of(document.mapping)>>
      [] OTHER -> <<>>

Other == <<"o", "t", "h", "e", "r">>

\* The first of the positions of the reverse mapping, in its order, that
\* satisfy a test; 0 when none does.
first_key(positions) ==
    IF positions = {} THEN 0 ELSE CHOOSE i \in positions : \A j \in positions : i <= j

\* normalize_category with the scan for a substring before the exact match.
normalize_category_scan_first(category, category_mapping) ==
    IF category = NaN THEN Other
    ELSE LET category_lower == strip(lower(category))
             scan == first_key({i \in DOMAIN category_mapping :
                                   IsSubstring(category_mapping[i].key, category_lower)})
         IN  IF scan # 0 THEN category_mapping[scan].value ELSE Other

\* normalize_category(category)
normalize_category(category, category_mapping) ==
    IF category = NaN THEN Other
    ELSE LET category_lower == strip(lower(category))
             exact == first_key({i \in DOMAIN category_mapping :
                                    category_mapping[i].key = category_lower})
             scan == first_key({i \in DOMAIN category_mapping :
                                   IsSubstring(category_mapping[i].key, category_lower)})
         IN  IF exact # 0 THEN category_mapping[exact].value
             ELSE IF scan # 0 THEN category_mapping[scan].value
             ELSE Other

\* Categories of statements.
FastFood == <<"F", "a", "s", "t", " ", "F", "o", "o", "d">>
SomeUnknownThing ==
    <<"S", "o", "m", "e", " ", "U", "n", "k", "n", "o", "w", "n", " ", "T", "h", "i", "n", "g">>
FoodStore == <<"F", "o", "o", "d", " ", "S", "t", "o", "r", "e">>
FoodAndDrink == <<"F", "o", "o", "d", " ", "&", " ", "D", "r", "i", "n", "k">>
GasPadded == <<" ", "G", "a", "s", " ">>
Blank == <<" ", " ">>
SupermarketDeposit ==
    <<"S", "u", "p", "e", "r", "m", "a", "r", "k", "e", "t", " ", "D", "e", "p", "o", "s", "i", "t">>
Deposit == <<"D", "e", "p", "o", "s", "i", "t">>
RawCategories ==
    {NaN, FastFood, SomeUnknownThing, FoodStore, FoodAndDrink, GasPadded, Blank,
     SupermarketDeposit, Deposit}

\* Mapping files: targets, each once, with up to MaxSources sources.
Food == <<"F", "o", "o", "d">>
Gas == <<"G", "a", "s">>
FoodStoreLower == <<"f", "o", "o", "d", " ", "s", "t", "o", "r", "e">>
Dining == <<"D", "i", "n", "i", "n", "g">>
Fuel == <<"f", "u", "e", "l">>
SourceLists == UNION {[1..n -> {Food, Gas, FoodStoreLower}] : n \in 0..MaxSources}
Entries(target) == {[target |-> target, sources |-> sources] : sources \in SourceLists}
CustomMappings ==
    {<<>>}
    \cup {<<e>> : e \in Entries(Dining) \cup Entries(Fuel)}
    \cup {<<e, f>> : e \in Entries(Dining), f \in Entries(Fuel)}
    \cup {<<f, e>> : e \in Entries(Dining), f \in Entries(Fuel)}
MappingDocuments ==
    {[kind |-> "missing"], [kind |-> "malformed"], [kind |-> "unreadable"]}
    \cup {[kind |-> "ok", mapping |-> mapping] : mapping \in CustomMappings}

\* CategoryNormalizer(config_path): category_mapping is what load_mapping
\* returns; when load_mapping raises, so does the constructor.
NewNormalizer(document) ==
    /\ ~normalizer.built
    /\ ~normalizer.raised
    /\ call.fn = "none"
    /\ normalizer' =
          IF load_mapping(document) = <<>>
          THEN [built |-> FALSE, raised |-> TRUE, category_mapping |-> <<>>]
          ELSE [built |-> TRUE, raised |-> FALSE, category_mapping |-> load_mapping(document)[1]]
    /\ call' = [fn |-> "load_mapping", document |-> document]
    /\ UNCHANGED <<reader, store>>

\* normalizer.normalize_category(category), for every category.
NormalizeCategory ==
    /\ normalizer.built
    /\ call.fn = "none"
    /\ \E category \in RawCategories :
          call' = [fn |-> "classify", category |-> category,
                   out |-> normalize_category(category, normalizer.category_mapping)]
    /\ UNCHANGED <<reader, normalizer, store>>

\* A normalizer, made from a well-formed or a missing mapping file, classifies
\* every category.
NextClassify ==
    \/ \E document \in {d \in MappingDocuments : d.kind \in {"missing", "ok"}} :
          NewNormalizer(document)
    \/ NormalizeCategory
    \/ ReaderReturn

SpecClassify == Init /\ [][NextClassify]_vars

\* ------------------------------------------------------- the config files

\* load_schema_configs(): nothing when the folder is not there; otherwise the
\* config of each file json.load reads and that names its bank, under that
\* name, a later file replacing an earlier one of the same bank.  A file
\* that raises is reported and passed over.
RECURSIVE load_files(_, _)
load_files(schema_configs, config_files) ==
    IF config_files = <<>> THEN schema_configs
    ELSE LET document == Head(config_files)
             loaded ==
                 IF document.kind = "ok" /\ "bank_name" \in DOMAIN document.config
                 THEN (document.config.bank_name :> document.config) @@ schema_configs
                 ELSE schema_configs
         IN  load_files(loaded, Tail(config_files))
load_schema_configs(folder) ==
    IF ~folder.exists THEN <<>> ELSE load_files(<<>>, folder.config_files)

\* Config files: a JSON config of a bank, one that names no bank, text that
\* is no JSON, and a file the process may not read; config folders hold up
\* to MaxFiles of them, in glob order.
ConfigDocuments ==
    {[kind |-> "malformed"], [kind |-> "unreadable"],
     [kind |-> "ok", config |-> [schema_mappings |-> <<CardFormat>>]]}
    \cup {[kind |-> "ok", config |-> [bank_name |-> b, schema_mappings |-> ms]] :
             b \in {"chase", "apple_card"}, ms \in {<<CardFormat>>, <<CheckingFormat>>}}
ConfigFolders ==
    {[exists |-> FALSE, config_files |-> <<>>]}
    \cup UNION {{[exists |-> TRUE, config_files |-> config_files] :
                    config_files \in [1..n -> ConfigDocuments]} : n \in 0..MaxFiles}

\* BankStatementReader(data_folder, config_folder, filter_payments), with
\* the config folder it loads.
NewReaderFromFolder(filter_payments, folder) ==
    /\ ~reader.built
    /\ call.fn = "none"
    /\ reader' = [built |-> TRUE, filter_payments |-> filter_payments,
                  schema_configs |-> load_schema_configs(folder)]
    /\ call' = [fn |-> "load_schema_configs", folder |-> folder]
    /\ UNCHANGED <<normalizer, store>>

\* load_data() makes a reader and a normalizer from the config files it
\* finds.
NextConfig ==
    \/ \E filter_payments \in BOOLEAN, folder \in ConfigFolders :
          NewReaderFromFolder(filter_payments, folder)
    \/ \E document \in MappingDocuments : NewNormalizer(document)
    \/ ReaderReturn

SpecConfig == Init /\ [][NextConfig]_vars

\* ---------------------------------------------------------------- claims
\* t is s without its leading and trailing whitespace.
IsTrimOf(t, s) ==
    /\ t # <<>> => t[1] \notin Whitespace /\ t[Len(t)] \notin Whitespace
    /\ \E i \in 0..Len(s) :
          /\ i + Len(t) <= Len(s)
          /\ SubSeq(s, i + 1, i + Len(t)) = t
          /\ \A k \in (1..i) \cup ((i + Len(t) + 1)..Len(s)) : s[k] \in Whitespace

\* C1: when set_note(id, note) has returned, get_note(id) is the trimmed note
\* if that is not empty; otherwise get_note(id) is empty and id is not a key
\* of transaction_notes.  This holds whatever the store held before.
C1_SetThenGet ==
    \A p \in Procs :
        pc[p] = "set_ret" =>
            LET got == get_note(notes_data[p], args[p].id)
            IN  /\ IsTrimOf(got, args[p].note)
                /\ got = <<>> => args[p].id \notin DOMAIN notes_data[p].transaction_notes

\* A padded note replaced another note of the id.
C1_Witness ==
    \E p \in Procs :
        /\ pc[p] = "set_ret"
        /\ args[p].note = <<" ", "a">>
        /\ get_note(pre[p], args[p].id) = <<"a", "a">>
        /\ get_note(notes_data[p], args[p].id) = <<"a">>

HasEmptyNote(data) ==
    \E id \in DOMAIN data.transaction_notes : strip(data.transaction_notes[id]) = <<>>

\* C2: no note map in memory and no snapshot written to a file maps an id to
\* an empty or whitespace-only note.
C2_NoEmptyNote ==
    /\ \A p \in Procs : ~HasEmptyNote(notes_data[p])
    /\ \A i \in Inodes : inodes[i].kind = "full" => ~HasEmptyNote(inodes[i].data)

\* A whitespace-only note was set on an id that held a note, and saved.
C2_Witness ==
    \E p \in Procs :
        /\ pc[p] = "set_ret"
        /\ args[p].note = <<" ">>
        /\ args[p].id \in DOMAIN pre[p].transaction_notes
        /\ ~saveErr[p]
        /\ PathContent = Full(notes_data[p])
        /\ notes_data[p].transaction_notes # EmptyMap

\* C3: when the save inside set_note failed, set_note returns False and
\* notes_data is what it was before the call.
C3_FailedSetLeavesMemory ==
    \A p \in Procs :
        (pc[p] = "set_ret" /\ saveErr[p]) =>
            (result[p] = "False" /\ notes_data[p] = pre[p])

\* C4: whichever step of a save a process is interrupted at, the backing
\* file is never truncated or partly written: every step (a crash included)
\* leaves its content as it was, or a process at the replace step puts its
\* complete snapshot there; so the path names no file or a complete snapshot.
C4_AtomicReplace ==
    /\ [](PathContent.kind \in {"free", "full"})
    /\ [][PathContent' # PathContent =>
            \E p \in Procs :
                /\ pc[p] = "sv_move"
                /\ pc'[p] # "crashed"
                /\ PathContent' = Full(notes_data[p])]_vars

\* A process died during a save, its temporary file is left behind, and the
\* backing file holds a complete snapshot.
C4_Witness ==
    \E p \in Procs :
        /\ pc[p] = "crashed"
        /\ orphans > 0
        /\ PathContent.kind = "full"
        /\ PathContent.data.transaction_notes # EmptyMap

\* C5: what a loading process deserializes is a complete snapshot, whatever
\* the steps of a saving process it interleaves with.
C5_ReaderSeesCompleteSnapshot ==
    \A p \in Procs : pc[p] = "ld_read" => inodes[fd[p]].kind = "full"

\* A reader is about to deserialize the file it opened while another
\* process, past its replace, has put a new snapshot at the path.
C5_Witness ==
    \E p \in Procs :
        /\ pc[p] = "ld_read"
        /\ path # 0
        /\ fd[p] # path
        /\ inodes[fd[p]].data # inodes[path].data

\* From taking the exclusive lock to the replace.
InWriteSection(p) == pc[p] \in {"sv_dump", "sv_unlock", "sv_flush", "sv_fsync", "sv_close", "sv_move"}

\* C6: no two processes are inside the write-and-replace section of a save
\* at once, and none is inside it while another holds load's shared lock.
C6_WritersSerialized ==
    \A p, q \in Procs :
        p # q => ~(InWriteSection(p) /\ (InWriteSection(q) \/ held[q] = "SH"))

\* C7: when set_note has returned True for a note that is not empty once
\* trimmed, the backing file holds a snapshot with that note, so that a store
\* newly initialized on the path returns it.
C7_SetIsDurable ==
    \A p \in Procs :
        (pc[p] = "set_ret" /\ result[p] = "True" /\ strip(args[p].note) # <<>>) =>
            /\ PathContent.kind = "full"
            /\ get_note(PathContent.data, args[p].id) = strip(args[p].note)

\* C8: when load_notes has found the file missing or not deserializable,
\* notes_data is the empty structure, and the snapshot its save wrote is the
\* empty structure.
C8_LoadResetsToEmpty ==
    \A p \in Procs :
        pc[p] = "ld_recovered" =>
            /\ notes_data[p] = DefaultData
            /\ (~saveErr[p] /\ PathContent.kind = "full") => PathContent.data = DefaultData

SameKey(r1, r2) ==
    /\ r1.date = r2.date
    /\ r1.amount = r2.amount
    /\ r1.description = r2.description
    /\ r1.bank = r2.bank
    /\ r1.source_file = r2.source_file

\* C9: two transactions with the same date, amount, description, bank and
\* source_file have the same id, whatever their other fields, their places
\* in the table and the notes the store holds.
C9_IdByKeyFields ==
    \A p \in Procs :
        \A i \in DOMAIN df[p] :
            /\ \A j \in DOMAIN df[p] :
                  SameKey(df[p][i], df[p][j]) => df[p][i].transaction_id = df[p][j].transaction_id
            /\ \A r \in Rows :
                  SameKey(df[p][i], r) => df[p][i].transaction_id = generate_transaction_id(r)

\* A merged table of two rows that differ in their category alone, in a
\* store that holds a note.
C9_Witness ==
    \E p \in Procs :
        /\ pc[p] = "merge_ret"
        /\ Len(df[p]) = 2
        /\ SameKey(df[p][1], df[p][2])
        /\ df[p][1].category # df[p][2].category
        /\ "transaction_id" \notin DOMAIN args[p].df[1]
        /\ notes_data[p].transaction_notes # EmptyMap

\* C10: the merged table has the rows of the input in their order, each
\* with notes = get_note(its transaction_id), and merging any permutation of
\* the input gives every row the same note.
C10_MergeByIdNotPosition ==
    \A p \in Procs :
        pc[p] = "merge_ret" =>
            LET input == args[p].df
                out == df[p]
            IN  /\ Len(out) = Len(input)
                /\ \A i \in DOMAIN input :
                      /\ \A f \in DOMAIN input[i] : out[i][f] = input[i][f]
                      /\ out[i].notes = get_note(notes_data[p], out[i].transaction_id)
                /\ \A perm \in Permutations(DOMAIN input) :
                      LET permuted == [i \in DOMAIN input |-> input[perm[i]]]
                          merged == add_notes_to_dataframe(notes_data[p], permuted)
                      IN  \A i \in DOMAIN input : merged[i].notes = out[perm[i]].notes

\* A merged table whose second row has a note and whose first has none.
C10_Witness ==
    \E p \in Procs :
        /\ pc[p] = "merge_ret"
        /\ Len(df[p]) = 2
        /\ df[p][1].notes = <<>>
        /\ df[p][2].notes # <<>>

\* C11: backup_notes to another path changes neither the store's in-memory
\* state (notes and metadata) nor the backing file, and what a later save
\* persists is what it would persist without the backup: the metadata in
\* memory and in every snapshot has the keys it was built with.
C11_BackupIndependent ==
    /\ \A p \in Procs : pc[p] = "backup_ret" => notes_data[p] = pre[p]
    /\ PathContent.kind = "full" => PathContent.data.metadata = DefaultMetadata

\* A statement row's type, category and description, whichever way its
\* columns are spelled; "" where the statement has no such column.
TypeOf(r) ==
    IF "Type" \in DOMAIN r THEN r.Type ELSE IF "type" \in DOMAIN r THEN r.type ELSE ""
CategoryOf(r) ==
    IF "Category" \in DOMAIN r THEN r.Category
    ELSE IF "category" \in DOMAIN r THEN r.category ELSE ""
DescriptionOf(r) ==
    IF "description" \in DOMAIN r THEN r.description
    ELSE IF "Description" \in DOMAIN r THEN r.Description
    ELSE r.merchant

MatchesGeneric(text) ==
    \E k \in DOMAIN generic_payment_patterns : str_contains(text, generic_payment_patterns[k])

\* A filter call that returned, with filtering enabled.
Filtered(bank_name) ==
    /\ call.fn = "filter"
    /\ call.bank_name = bank_name
    /\ reader.filter_payments
    /\ ~call.raised

\* C12: filtering is idempotent: filtering the table a filter call returned,
\* for the same bank, returns that table.
C12_FilterIdempotent ==
    (call.fn = "filter" /\ ~call.raised) =>
        filter_credit_card_payments(call.out, call.bank_name, reader.filter_payments) = call.out

\* A call that removed a row matching one generic pattern and a row matching
\* another.
C12_Witness ==
    /\ call.fn = "filter"
    /\ ~call.raised
    /\ reader.filter_payments
    /\ call.out # call.df
    /\ "description" \in Columns(call.df)
    /\ \E i, j \in DOMAIN call.df :
          /\ str_contains(call.df[i].description, PAYMENT_THANK_YOU)
          /\ str_contains(call.df[j].description, AUTOPAY)
          /\ ~str_contains(call.df[j].description, PAYMENT_THANK_YOU)

\* C13: for chase the filter removes every row whose type is exactly
\* "Payment" and keeps, in their order, the rows whose type is not Payment
\* and whose description matches no generic pattern; of the three rows of
\* test_chase_filtering the two Sale rows remain.
C13_ChaseRemovesPayments ==
    Filtered("chase") =>
        LET Kept(r) == TypeOf(r) # "Payment" /\ ~MatchesGeneric(DescriptionOf(r))
        IN  /\ \A i \in DOMAIN call.out : TypeOf(call.out[i]) # "Payment"
            /\ SelectSeq(call.out, Kept) = SelectSeq(call.df, Kept)
            /\ call.df = chase_data => call.out = <<chase_data[2], chase_data[3]>>

\* The statement of test_chase_filtering was filtered.
C13_Witness ==
    /\ Filtered("chase")
    /\ call.df = chase_data
    /\ Len(call.out) = 2

\* C14: for apple_card the institution rule drops a row exactly when its
\* type and its category are both "Payment": such a row is removed, and a
\* row with at most one of the two equal to Payment, whose description
\* matches no generic pattern, is kept in its place.
C14_AppleCardBothFields ==
    Filtered("apple_card") =>
        LET Both(r) == TypeOf(r) = "Payment" /\ CategoryOf(r) = "Payment"
            Kept(r) == ~Both(r) /\ ~MatchesGeneric(DescriptionOf(r))
        IN  /\ \A i \in DOMAIN call.out : ~Both(call.out[i])
            /\ SelectSeq(call.out, Kept) = SelectSeq(call.df, Kept)
            /\ call.df = apple_data => call.out = <<apple_data[2], apple_data[3]>>

\* A statement with a row of type Payment and another category, kept, and a
\* row with both fields Payment, removed.
C14_Witness ==
    /\ Filtered("apple_card")
    /\ \E i \in DOMAIN call.df :
          TypeOf(call.df[i]) = "Payment" /\ CategoryOf(call.df[i]) = "Payment"
    /\ \E i \in DOMAIN call.out :
          TypeOf(call.out[i]) = "Payment" /\ CategoryOf(call.out[i]) # "Payment"

\* C15: with filtering enabled, for every bank, no row whose description
\* contains a generic payment pattern (in any case) is in the filtered
\* table.
C15_GenericPassEveryBank ==
    \A b \in BankNames :
        Filtered(b) =>
            \A i \in DOMAIN call.out :
                {"description", "Description"} \cap DOMAIN call.out[i] # {}
                    => ~MatchesGeneric(DescriptionOf(call.out[i]))

\* C16: with filtering disabled the filter returns the table it was given.
C16_DisabledReturnsInput ==
    (call.fn = "filter" /\ ~reader.filter_payments) => (~call.raised /\ call.out = call.df)

\* The statement of test_no_filtering, with its Payment row, came back whole.
C16_Witness ==
    /\ call.fn = "filter"
    /\ ~reader.filter_payments
    /\ call.bank_name = "chase"
    /\ call.df = chase_data_unfiltered
    /\ call.out = chase_data_unfiltered

\* out holds rows of table, in the order they have there.
IsSubsequence(out, table) ==
    \E at \in [DOMAIN out -> DOMAIN table] :
        /\ \A i, j \in DOMAIN out : i < j => at[i] < at[j]
        /\ \A i \in DOMAIN out : table[at[i]] = out[i]

\* C17: the filter only removes rows: the table it returns is a
\* sub-sequence of the one it got, and the count it reports is the number of
\* rows in minus the number of rows out, never negative.
C17_FilterOnlyRemoves ==
    (call.fn = "filter" /\ ~call.raised) =>
        /\ IsSubsequence(call.out, call.df)
        /\ call.printed = Len(call.df) - Len(call.out)
        /\ call.printed >= 0

\* A call that removed the first of two different rows.
C17_Witness ==
    /\ call.fn = "filter"
    /\ ~call.raised
    /\ Len(call.df) = 2
    /\ call.df[1] # call.df[2]
    /\ call.out = <<call.df[2]>>
    /\ call.printed = 1

\* The sign convention a single_column amount_handling names, if any.
Selected(amount_config) ==
    IF "sign_convention" \in DOMAIN amount_config THEN amount_config.sign_convention ELSE "none"

\* A normalize_amount_column call on one amount column the statement has.
SingleColumnCall ==
    /\ call.fn = "amount"
    /\ call.amount_config.type = "single_column"
    /\ call.amount_config.column \in Columns(call.df)

\* The amount column's cell in row i of the call's statement.
RawCell(i) == call.df[i][call.amount_config.column]

\* C18: for single_column and every parsable raw amount x, the normalized
\* amount is x under positive_for_purchases_negative_for_payments and -x
\* under negative_for_debits and under every configuration that does not
\* select positive_for_purchases_negative_for_payments.
C18_NegatedUnlessPurchasesPositive ==
    SingleColumnCall =>
        \A i \in DOMAIN call.df :
            ~to_numeric(RawCell(i)).nan =>
                call.out[i].amount.cents =
                    IF Selected(call.amount_config) = "positive_for_purchases_negative_for_payments"
                    THEN to_numeric(RawCell(i)).cents
                    ELSE -to_numeric(RawCell(i)).cents

\* C18, amended: for single_column and every parsable raw amount x, the
\* normalized amount is x under positive_for_purchases_negative_for_payments,
\* -x under negative_for_debits and when no sign convention is configured,
\* and x under any other sign convention; so -21.39 becomes 21.39, and 8.00
\* and -185.53 stay as they are where purchases are positive.
C18_SignConvention ==
    SingleColumnCall =>
        \A i \in DOMAIN call.df :
            LET x == to_numeric(RawCell(i))
                amount == call.out[i].amount
            IN  /\ ~x.nan =>
                      /\ ~amount.nan
                      /\ amount.cents =
                            IF Selected(call.amount_config) \in {"negative_for_debits", "none"}
                            THEN -x.cents ELSE x.cents
                /\ RawCell(i) = Minus2139 => x = Num(-2139)
                /\ RawCell(i) = Plus800 => x = Num(800)
                /\ RawCell(i) = Minus18553 => x = Num(-18553)

\* -21.39 was normalized to 21.39 with no sign convention configured, and
\* -185.53 left as it is where purchases are positive.
C18_Witness ==
    /\ SingleColumnCall
    /\ Len(call.df) = 2
    /\ \/ /\ Selected(call.amount_config) = "none"
          /\ RawCell(1) = Minus2139
          /\ call.out[1].amount = Num(2139)
       \/ /\ Selected(call.amount_config) = "positive_for_purchases_negative_for_payments"
          /\ RawCell(1) = Minus18553
          /\ call.out[1].amount = Num(-18553)
    /\ RawCell(2) = NotAvailable
    /\ call.out[2].amount.nan

\* What a raw row stands for under the convention of its statement: with
\* negative_for_debits (the default) a negative amount is money spent, with
\* positive_for_purchases_negative_for_payments a positive one; with split
\* columns a row with only the debit filled is money spent, one with only the
\* credit filled money received.
Spent(i) ==
    IF call.amount_config.type = "single_column"
    THEN LET x == to_numeric(RawCell(i))
         IN  /\ ~x.nan
             /\ IF Selected(call.amount_config) = "positive_for_purchases_negative_for_payments"
                THEN x.cents > 0 ELSE x.cents < 0
    ELSE /\ ~to_numeric(call.df[i][call.amount_config.debit_column]).nan
         /\ to_numeric(call.df[i][call.amount_config.credit_column]).nan
Received(i) ==
    IF call.amount_config.type = "single_column"
    THEN LET x == to_numeric(RawCell(i))
         IN  /\ ~x.nan
             /\ IF Selected(call.amount_config) = "positive_for_purchases_negative_for_payments"
                THEN x.cents < 0 ELSE x.cents > 0
    ELSE /\ to_numeric(call.df[i][call.amount_config.debit_column]).nan
         /\ ~to_numeric(call.df[i][call.amount_config.credit_column]).nan

\* C19: after normalization, for single_column with either sign convention
\* and for split_columns, a row of money spent has an amount >= 0 and a row
\* of money received an amount <= 0.
C19_SignIndependentOfBank ==
    (/\ call.fn = "amount"
     /\ "amount" \in Columns(call.out)
     /\ Selected(call.amount_config) \in
            {"positive_for_purchases_negative_for_payments", "negative_for_debits", "none"}) =>
        \A i \in DOMAIN call.df :
            /\ Spent(i) => call.out[i].amount.cents >= 0
            /\ Received(i) => call.out[i].amount.cents <= 0

\* C20: detect_csv_format returns the first mapping, in the order of the
\* bank's list, all of whose column_mappings values are among the columns,
\* and None when the bank has no config or no mapping of it has all its
\* columns there.
C20_FirstMatchingFormat ==
    call.fn = "detect" =>
        LET configured == call.bank_name \in DOMAIN reader.schema_configs
            ms == IF configured /\ "schema_mappings" \in DOMAIN reader.schema_configs[call.bank_name]
                  THEN reader.schema_configs[call.bank_name].schema_mappings
                  ELSE <<>>
            Matches(k) ==
                \A c \in DOMAIN ms[k].column_mappings : ms[k].column_mappings[c] \in call.columns
        IN  IF \E k \in DOMAIN ms : Matches(k)
            THEN \E k \in DOMAIN ms :
                    /\ Matches(k)
                    /\ \A j \in 1..(k - 1) : ~Matches(j)
                    /\ call.out = <<ms[k]>>
            ELSE call.out = <<>>

\* Two different formats of the list match the columns, and the first one
\* was returned.
C20_Witness ==
    /\ call.fn = "detect"
    /\ call.bank_name = "chase"
    /\ "chase" \in DOMAIN reader.schema_configs
    /\ "schema_mappings" \in DOMAIN reader.schema_configs["chase"]
    /\ LET ms == reader.schema_configs["chase"].schema_mappings
       IN  /\ Len(ms) = 2
           /\ ms[1] # ms[2]
           /\ {ms[1].column_mappings[c] : c \in DOMAIN ms[1].column_mappings} # {}
           /\ call.out = <<ms[1]>>
           /\ detect_csv_format(call.columns, "chase", [b \in {"chase"} |-> [schema_mappings |-> Tail(ms)]])
                  = <<ms[2]>>

\* The formats the reader holds for the bank of the call.
FormatsOfCall ==
    IF call.bank_name \in DOMAIN reader.schema_configs
    THEN reader.schema_configs[call.bank_name].schema_mappings
    ELSE <<>>

\* Format k of the call's bank has all its columns in the call's statement.
FormatMatches(k) ==
    \A c \in DOMAIN FormatsOfCall[k].column_mappings :
        FormatsOfCall[k].column_mappings[c] \in Columns(call.df)

\* The format the call's statement is read with.
MatchedFormat ==
    FormatsOfCall[CHOOSE k \in DOMAIN FormatsOfCall :
                      FormatMatches(k) /\ \A j \in 1..(k - 1) : ~FormatMatches(j)]

\* C21: when the bank has no config or no format matches, normalize returns
\* the rows it got, with no column added, removed or changed; when a format
\* matches, every row it returns has bank equal to the bank's name.
C21_PassThroughOrStamped ==
    call.fn = "normalize" =>
        IF \E k \in DOMAIN FormatsOfCall : FormatMatches(k)
        THEN \A i \in DOMAIN call.out :
                "bank" \in DOMAIN call.out[i] /\ call.out[i].bank = call.bank_name
        ELSE call.out = call.df

\* A checking statement read by a reader that holds only a card format for
\* the bank came back as it was.
C21_Witness ==
    /\ call.fn = "normalize"
    /\ call.bank_name = "chase"
    /\ FormatsOfCall = <<CardFormat>>
    /\ Len(call.df) = 2
    /\ "Debit" \in Columns(call.df)
    /\ call.out = call.df

\* A normalize call on a statement a format matches, and the cells of row i
\* the format reads the date and the amount from.
MatchedCall ==
    /\ call.fn = "normalize"
    /\ call.df # <<>>
    /\ \E k \in DOMAIN FormatsOfCall : FormatMatches(k)
DateCell(i) == call.df[i][MatchedFormat.column_mappings.date]
AmountCellsOf(i) ==
    LET amount_config == MatchedFormat.amount_handling
    IN  IF amount_config.type = "single_column"
        THEN {call.df[i][amount_config.column]}
        ELSE {call.df[i][amount_config.debit_column], call.df[i][amount_config.credit_column]}

\* Normalization returns the rows it got, in their order, each with every
\* cell it had.
RowsRetained ==
    /\ Len(call.out) = Len(call.df)
    /\ \A i \in DOMAIN call.df :
          \A c \in DOMAIN call.df[i] : c \in DOMAIN call.out[i] /\ call.out[i][c] = call.df[i][c]

normalize_then_filter(table, csv_file, bank_name, filter_payments, schema_configs) ==
    LET normalized_df ==
            normalize_dataframe(with_source_file(table, csv_file), bank_name, schema_configs)
    IN  IF filter_raises(normalized_df, bank_name, filter_payments) THEN <<>>
        ELSE <<filter_credit_card_payments(normalized_df, bank_name, filter_payments)>>

\* The frames of a read call had every file been normalized first and
\* filtered afterwards.
RECURSIVE NormalizedThenFiltered(_)
NormalizedThenFiltered(k) ==
    IF k > Len(call.csv_files) THEN <<>>
    ELSE normalize_then_filter(call.csv_files[k].rows, call.csv_files[k].name, call.bank_name,
                               reader.filter_payments, reader.schema_configs)
         \o NormalizedThenFiltered(k + 1)

\* C26: the pipeline normalizes, then filters: with filtering enabled, the
\* rows it produces for a folder and bank are those got by normalizing each
\* raw file and filtering the normalized rows.
C26_NormalizeThenFilter ==
    (call.fn = "read" /\ reader.filter_payments)
        => call.out = concat(NormalizedThenFiltered(1))

\* The lowercased and trimmed input of a classify call, and the positions of
\* the reverse index whose key is that input, or a substring of it.
ClassifyInput == strip(lower(call.category))
ExactKeys == {i \in DOMAIN normalizer.category_mapping :
                 normalizer.category_mapping[i].key = ClassifyInput}
SubstringKeys == {i \in DOMAIN normalizer.category_mapping :
                     IsSubstring(normalizer.category_mapping[i].key, ClassifyInput)}
DefaultLoaded == normalizer.category_mapping = default_reverse_mapping

\* C23: classify never returns null: a null category gives "other";
\* otherwise, on the lowercased and trimmed input, a reverse-index key equal
\* to it gives its target, before any substring; else the first key that is
\* a substring of it gives its target; else the result is "other".  Under
\* the default mapping null gives "other", "Fast Food" gives "dining" and
\* "Some Unknown Thing" gives "other".
C23_Classify ==
    call.fn = "classify" =>
        /\ call.out # NaN
        /\ call.category = NaN => call.out = Other
        /\ call.category # NaN =>
              IF ExactKeys # {}
              THEN \A i \in ExactKeys : call.out = normalizer.category_mapping[i].value
              ELSE IF SubstringKeys # {}
              THEN \E i \in SubstringKeys :
                      /\ \A j \in SubstringKeys : i <= j
                      /\ call.out = normalizer.category_mapping[i].value
              ELSE call.out = Other
        /\ DefaultLoaded =>
              /\ call.category = FastFood => call.out = <<"d", "i", "n", "i", "n", "g">>
              /\ call.category = SomeUnknownThing => call.out = Other

\* Under the default mapping "Food Store" was classified as groceries, the
\* target of the key "food store", though the keys "food" and "store" come
\* before it or are substrings of it.
C23_Witness ==
    /\ call.fn = "classify"
    /\ DefaultLoaded
    /\ call.category = FoodStore
    /\ ExactKeys # {}
    /\ \E i \in SubstringKeys : \A j \in ExactKeys : i < j
    /\ call.out = <<"g", "r", "o", "c", "e", "r", "i", "e", "s">>

\* File k of the loaded folder is a well-formed config of a bank that no
\* later file of the folder is a well-formed config of.
LoadableConfig(k) ==
    LET config_files == call.folder.config_files
    IN  /\ config_files[k].kind = "ok"
        /\ "bank_name" \in DOMAIN config_files[k].config
        /\ \A j \in (k + 1)..Len(config_files) :
              ~(/\ config_files[j].kind = "ok"
                /\ "bank_name" \in DOMAIN config_files[j].config
                /\ config_files[j].config.bank_name = config_files[k].config.bank_name)

\* C25: a malformed or unreadable config document, a format config or the
\* category mapping, never aborts loading: no exception reaches the caller,
\* and every well-formed document is loaded.
C25_BadConfigSkipped ==
    /\ ~normalizer.raised
    /\ call.fn = "load_schema_configs" =>
          /\ reader.built
          /\ \A k \in DOMAIN call.folder.config_files :
                LoadableConfig(k) =>
                    LET config == call.folder.config_files[k].config
                    IN  /\ config.bank_name \in DOMAIN reader.schema_configs
                        /\ reader.schema_configs[config.bank_name] = config

\* The notes the instance of p1 holds, the ids that hold one, and the
\* characters of them all.
HeldNotes == notes_data["p1"].transaction_notes
RECURSIVE Characters(_)
Characters(ids) ==
    IF ids = {} THEN 0
    ELSE LET id == CHOOSE i \in ids : TRUE IN Len(HeldNotes[id]) + Characters(ids \ {id})

\* C24: statistics() reports as total_notes the number of ids holding a
\* note, as total_characters the sum of the lengths of the notes, and as
\* average_note_length total_characters / total_notes, 0 when there is no
\* note: "abc" and "de" on two ids give 2, 5 and 2.5.
C24_Statistics ==
    pc["p1"] = "stats_ret" =>
        LET ids == {id \in Ids : get_note(notes_data["p1"], id) # <<>>}
            average == result["p1"].average_note_length
        IN  /\ result["p1"].total_notes = Cardinality(ids)
            /\ result["p1"].total_characters = Characters(ids)
            /\ average.den # 0
            /\ IF ids = {} THEN average.num = 0
               ELSE average.num * Cardinality(ids) = Characters(ids) * average.den
            /\ (\E i, j \in ids : i # j /\ HeldNotes[i] = <<"a", "b", "c">> /\ HeldNotes[j] = <<"d", "e">>)
                  => /\ result["p1"].total_notes = 2
                     /\ result["p1"].total_characters = 5
                     /\ 10 * average.num = 25 * average.den

\* The statistics of the notes "abc" and "de" on two ids were returned.
C24_Witness ==
    /\ pc["p1"] = "stats_ret"
    /\ \E i, j \in DOMAIN HeldNotes : i # j /\ HeldNotes[i] = <<"a", "b", "c">> /\ HeldNotes[j] = <<"d", "e">>
    /\ result["p1"].total_notes = 2
    /\ result["p1"].total_characters = 5

\* The step in which a save of p that had made its temporary file returns
\* after one of its steps raised.
FailedSaveReturns(p) ==
    /\ pc[p] \in SavePcs
    /\ tmp[p] # 0
    /\ pc'[p] \notin SavePcs \cup {"crashed"}
    /\ saveErr'[p]

\* C27: when a save fails at a step after its temporary file was made, then
\* on its return the temporary file is gone (no file is left over in the
\* directory) and the backing file holds what it held.
C27_FailedSaveCleansUp ==
    [][\A p \in Procs :
          FailedSaveReturns(p) => /\ tmp'[p] = 0
                                  /\ orphans' = orphans
                                  /\ PathContent' = PathContent]_vars

\* Process p is inside load_notes or _save_notes_to_file.
InLoadOrSave(p) == pc[p] \in LoadPcs \cup SavePcs

\* C28: the lock is released on every path out of load_notes and
\* _save_notes_to_file: a process that is in neither holds no lock, and a
\* process waiting for its lock is not kept waiting forever.
C28_LocksReleased ==
    /\ [](\A p \in Procs : ~InLoadOrSave(p) => held[p] = "UN")
    /\ \A p \in Procs : (pc[p] = "ld_lock") ~> (pc[p] # "ld_lock")
    /\ \A p \in Procs : (pc[p] = "sv_lock") ~> (pc[p] # "sv_lock")

\* A load that raised while it held the shared lock has returned, the lock
\* released, while the other process waits for its own lock.
C28_Witness ==
    /\ pc["p1"] = "ld_ret"
    /\ held["p1"] = "UN"
    /\ pc["p2"] \in {"ld_lock", "sv_lock"}

\* The notes the backing file holds.
StoredNotes == IF PathContent.kind = "full" THEN PathContent.data.transaction_notes ELSE EmptyMap

\* C29: no update is lost: when a process replaces the backing file in a
\* set_note, every note the file held for another id is still in it, so two
\* processes that each set a note on a different id leave both in the file.
C29_NoLostUpdate ==
    [][\A p \in Procs :
          (pc[p] = "sv_move" /\ caller[p] = "set" /\ pc'[p] = "set_ret")
              => \A id \in DOMAIN StoredNotes \ {args[p].id} :
                    id \in DOMAIN StoredNotes' /\ StoredNotes'[id] = StoredNotes[id]]_vars


====
